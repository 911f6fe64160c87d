-------------------------------- MODULE HNSW --------------------------------
(***************************************************************************)
(* The HNSW graph (core/index/hnsw/hnsw.go): nodes with neighbour lists on *)
(* the levels up to their own, an entry point and the highest level. The   *)
(* unified index calls Add under its write lock and Search under its read  *)
(* lock, so that both are one step; they are operators on the graph.       *)
(*                                                                         *)
(* Vectors are points on a line, and the id of a node is its place: the    *)
(* distance of two nodes is that of their ids.                             *)
(***************************************************************************)
EXTENDS Naturals, Sequences, FiniteSets, SequencesExt

CONSTANTS M, Ef, MaxLevel   \* neighbours, candidates; randomLevel gives 1 .. MaxLevel

ASSUME HNSWAssumption == M \in Nat \ {0} /\ Ef \in Nat \ {0} /\ MaxLevel \in Nat \ {0}

NoLevel == 100   \* the level of an empty graph, -1 in the code

EmptyHNSW == [node |-> << >>, entry |-> 0, top |-> NoLevel]
Ids(h) == DOMAIN h.node
Away(a, b) == IF a < b THEN b - a ELSE a - b

Cut(s, n) == SubSeq(s, 1, IF Len(s) < n THEN Len(s) ELSE n)

\* Candidates by distance, at most n; of two at the same distance any may come
\* first, here the smaller id.
Nearest(S, q, n) ==
    LET Nearer(a, b) == Away(a, q) < Away(b, q) \/ (Away(a, q) = Away(b, q) /\ a < b)
    IN Cut(SetToSortSeq(S, Nearer), n)

\* The neighbours of candidate c: new ones are taken while there are fewer than
\* ef candidates, and later only if they are nearer than the best of the round.
TakeNeighbors(h, s, c, q, ef, level, best) ==
    FoldLeft(LAMBDA t, n :
        IF n \in t.visited THEN t
        ELSE IF n \in Ids(h) /\ (Away(n, q) < best \/ Len(t.cand) < ef)
        THEN [cand |-> Append(t.cand, n), visited |-> t.visited \cup {n}, changed |-> TRUE]
        ELSE [t EXCEPT !.visited = @ \cup {n}],
        s, IF h.node[c].level < level THEN << >> ELSE h.node[c].nbrs[level + 1])

\* A round: the candidates from number i on, up to the first that is farther
\* away than the best.
RECURSIVE Round(_, _, _, _, _, _, _)
Round(h, s, i, q, ef, level, best) ==
    IF i > Len(s.cand) THEN s
    ELSE IF Away(s.cand[i], q) > best THEN s
    ELSE Round(h, TakeNeighbors(h, s, s.cand[i], q, ef, level, best), i + 1, q, ef, level, best)

\* searchLayer: rounds, until one brings nothing new.
RECURSIVE Explore(_, _, _, _, _, _)
Explore(h, cand, visited, q, ef, level) ==
    IF cand = << >> THEN cand
    ELSE LET s == Round(h, [cand |-> cand, visited |-> visited, changed |-> FALSE], 1, q, ef, level,
                        Away(cand[1], q))
         IN IF ~s.changed THEN cand
            ELSE Explore(h, Nearest(ToSet(s.cand), q, ef), s.visited, q, ef, level)

SearchLayer(h, eps, q, ef, level) ==
    LET start == {e \in ToSet(eps) \cap Ids(h) : h.node[e].level >= level}
    IN Explore(h, Nearest(start, q, ef), start, q, ef, level)

\* Down from the top level to the given one, one candidate at a time.
RECURSIVE Descend(_, _, _, _, _)
Descend(h, eps, q, from, to) ==
    IF from <= to THEN eps
    ELSE Descend(h, SearchLayer(h, eps, q, 1, from), q, from - 1, to)

\* Mutant: lists are not cut to M.
LinksUncut(h, n, id, level) ==
    IF level > h.node[n].level THEN h
    ELSE [h EXCEPT !.node[n].nbrs[level + 1] = @ \o << id >>]

\* The neighbour gets a link back. With too many the nearest M stay, and the new
\* node, which is not among the published ones yet, counts as the farthest.
LinkBack(h, n, id, level) ==
    LET list == h.node[n].nbrs[level + 1]
        kept == IF Len(list) < M THEN Append(list, id) ELSE Nearest(ToSet(list), n, M)
    IN IF level > h.node[n].level THEN h ELSE [h EXCEPT !.node[n].nbrs[level + 1] = kept]

\* One level of Add: the links of the new node and the links back, in the order
\* of the shards, which is that of the ids.
LinkLevel(h, id, level, updates) ==
    FoldLeft(LAMBDA g, n : LinkBack(g, n, id, level),
             [h EXCEPT !.node[id].nbrs[level + 1] = updates], updates)

\* The n lowest levels, from the highest of them down: on each the nearest M of the
\* candidates are linked, and they are the entry points of the next.
RECURSIVE Connect(_, _, _, _)
ConnectChosen(h, id, chosen, n) ==
    Connect(LinkLevel(h, id, n - 1, SetToSortSeq(ToSet(chosen), <)), id, chosen, n - 1)
Connect(h, id, eps, n) ==
    IF n = 0 THEN h ELSE ConnectChosen(h, id, Cut(SearchLayer(h, eps, id, Ef, n - 1), M), n)

\* The first node is the entry point; a later one becomes it when its level is
\* higher than any before.
SetEntry(h, id, level) == IF level > h.top THEN [h EXCEPT !.entry = id, !.top = level] ELSE h

WithNode(h, id, level) ==
    [h EXCEPT !.node = [n \in Ids(h) \cup {id} |->
        IF n = id THEN [level |-> level, nbrs |-> [l \in 1 .. level + 1 |-> << >>]] ELSE h.node[n]]]

Add(h, id, level) ==
    IF Ids(h) = {} THEN [WithNode(h, id, level) EXCEPT !.entry = id, !.top = level]
    ELSE SetEntry(Connect(WithNode(h, id, level), id, Descend(h, << h.entry >>, id, h.top, level),
                          (IF level < h.top THEN level ELSE h.top) + 1),
                  id, level)

\* Search: the k nearest of what the lowest level yields.
SearchHNSW(h, q, k) ==
    IF Ids(h) = {} THEN << >>
    ELSE Cut(SearchLayer(h, Descend(h, << h.entry >>, q, h.top, 0), q, Ef, 0), k)

-----------------------------------------------------------------------------
(* Properties.                                                             *)

\* hnsw.go: whatever the random levels and the order of the nodes, the entry
\* point is on the top level, no list is longer than M or repeats a node, and a
\* link on a level leads to a node that has that level and is not itself; no node
\* is without a link.
HNSWWellFormed(h) ==
    Ids(h) # {} =>
        /\ h.entry \in Ids(h) /\ h.node[h.entry].level = h.top
        /\ \A n \in Ids(h) :
              /\ h.node[n].level <= h.top
              /\ Cardinality(Ids(h)) > 1 => h.node[n].nbrs[1] # << >>
              /\ \A l \in DOMAIN h.node[n].nbrs :
                    LET list == h.node[n].nbrs[l] IN
                    /\ Len(list) <= M /\ Cardinality(ToSet(list)) = Len(list)
                    /\ \A m \in ToSet(list) : m \in Ids(h) \ {n} /\ h.node[m].level >= l - 1

\* A search of a graph that is not empty finds something, for every query. As
\* long as no list is full, a search for the vector of a node finds the node; a
\* node that came when the lists of its neighbours were full has no link back.
SearchFindsSomething(h, queries) ==
    Ids(h) # {} => \A q \in queries :
        /\ SearchHNSW(h, q, 1) # << >>
        /\ q \in Ids(h) /\ Cardinality(Ids(h)) <= M + 1 => SearchHNSW(h, q, 1) = << q >>
=============================================================================
