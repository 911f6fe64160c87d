---------------------------- MODULE UnifiedIndex ----------------------------
(***************************************************************************)
(* The unified index (core/index/unified/unified_index.go): an HNSW graph, *)
(* the mapping from its nodes to entities, a graph cache, a cache of       *)
(* entities and the SSTables that were loaded last. A goroutine reloads it *)
(* when a file is younger than the last reload; flushes and compactions    *)
(* change the directory meanwhile. AddEntity and the reload hold the write *)
(* lock, the readers the read lock.                                        *)
(*                                                                         *)
(* The vector id of an entity is the entity: hashEntityID is taken to have *)
(* no collisions.  Files of kind "parts" have a vector row and edge rows   *)
(* for their entities, as in the tests, those of kind "meta" have the row  *)
(* that FlushMemtable writes.  The files of flushes and of compactions     *)
(* have the prefix that the index looks for.                               *)
(***************************************************************************)
EXTENDS HNSW, GraphCache

CONSTANTS
    Entities,      \* natural numbers
    Links,         \* Links[e]: the entities its outgoing edges lead to
    BackLinks,     \* BackLinks[e]: the entities its incoming edges come from
    RowKinds,      \* the kinds of files: "parts", "meta"
    CacheSize,     \* EntityCacheSize
    NodeLevels,    \* bound: the levels that nodes get
    Plain,         \* bound: the entities that may have versions without an embedding
    MaxStamps      \* bound: writes of files

VARIABLES
    kind,      \* the kind of the files
    dir,       \* the SSTables
    clock,     \* the time of the last write of a file
    memtable,  \* the rows that were put since the last flush
    idx,       \* the index
    reload,    \* where hotReloadLoop is, what it globbed and has read
    merge,     \* the compaction: where it is, the file it wrote, the inputs to delete
    raced      \* history: the files that appeared too late for the last reload

indexVars == <<kind, dir, clock, memtable, idx, reload, merge, raced>>

Idle == [pc |-> "idle", todo |-> << >>, got |-> << >>]
NoMerge == [pc |-> "none", out |-> [mtime |-> 0, rows |-> {}], inputs |-> << >>]
\* fresh is history: the entities with embeddings added since the index was built.
EmptyIndex == [hnsw |-> EmptyHNSW, mapped |-> {}, graph |-> EmptyGraph, cache |-> {},
               readers |-> << >>, lastReload |-> 0, fresh |-> {}]

\* New: the first reload finds no files.
IndexInit ==
    /\ kind \in RowKinds
    /\ dir = {}
    /\ clock = 0
    /\ memtable = {}
    /\ idx = EmptyIndex
    /\ reload = Idle
    /\ merge = NoMerge
    /\ raced = {}

Locked == reload.pc = "locked"
Serving == reload.pc # "stopped"    \* the servers end before main closes the index
OutEdges(e) == {[from |-> e, to |-> x] : x \in Links[e]}
InEdges(e) == {[from |-> x, to |-> e] : x \in BackLinks[e]}
AddEdges(g, edges) == FoldLeft(AddEdge, g, edges)

\* A version of an entity as rows of a file.
Row(e, type, edge) == [id |-> e, type |-> type, edge |-> edge]
NoEdge == [from |-> 0, to |-> 0]
EntityRows(e, vector) ==
    IF kind = "meta" THEN {Row(e, "meta", NoEdge)}
    ELSE {Row(v, "vector", NoEdge) : v \in vector} \cup {Row(e, "edge", d) : d \in OutEdges(e) \cup InEdges(e)}

\* A full cache loses an entry, any of them, even for one it already has.
Cached(cache, e, victim) ==
    (IF Cardinality(cache) >= CacheSize THEN cache \ {victim} ELSE cache) \cup {e}
Victims == IF idx.cache = {} THEN {0} ELSE idx.cache

\* AddEntity of a version with or without an embedding: the first one with an
\* embedding goes into the HNSW graph, later ones leave it alone.
AddEntity(e, embedded, level, victim) ==
    LET vector == IF embedded THEN {e} ELSE {} IN
    /\ Serving /\ ~Locked
    /\ embedded \/ e \in Plain
    /\ memtable' = memtable \cup EntityRows(e, vector)
    /\ idx' = [idx EXCEPT !.hnsw = IF vector \subseteq idx.mapped THEN @ ELSE Add(@, e, level),
                           !.mapped = @ \cup vector, !.fresh = @ \cup vector,
                           !.graph = AddEdges(@, SetToSeq(OutEdges(e)) \o SetToSeq(InEdges(e))),
                           !.cache = Cached(@, e, victim)]
    /\ UNCHANGED <<kind, dir, clock, reload, merge, raced>>

LoadedRows(readers) == UNION {readers[i].rows : i \in DOMAIN readers}
LoadedIds(readers) == {row.id : row \in LoadedRows(readers)}
VectorIds(readers) == {row.id : row \in {w \in LoadedRows(readers) : w.type = "vector"}}
EdgesIn(readers, e) == {row.edge : row \in {w \in LoadedRows(readers) : w.type = "edge" /\ w.id = e}}

\* GetEntity, and Search for each of its candidates: what is not in the cache
\* is reconstructed from the loaded files.
GetEntity(e, victim) ==
    /\ Serving /\ ~Locked /\ e \in LoadedIds(idx.readers) \ idx.cache
    /\ idx' = [idx EXCEPT !.cache = Cached(@, e, victim)]
    /\ UNCHANGED <<kind, dir, clock, memtable, reload, merge, raced>>

\* GetNeighbors, and Search for each of its candidates.
GetNeighbors(e) ==
    /\ Serving /\ ~Locked
    /\ idx' = [idx EXCEPT !.graph = AfterNeighbors(@, e)]
    /\ UNCHANGED <<kind, dir, clock, memtable, reload, merge, raced>>

\* A file appears; the reload has globbed before, or ended after it was written.
Appears(f) ==
    /\ dir' = dir \cup {f}
    /\ raced' = IF Locked \/ f.mtime <= idx.lastReload THEN raced \cup {f} ELSE raced

\* FlushMemtable: the file is named after the time of the flush.
FlushFile ==
    /\ Serving /\ memtable # {}
    /\ clock < MaxStamps
    /\ clock' = clock + 1
    /\ memtable' = {}
    /\ Appears([mtime |-> clock + 1, rows |-> memtable])
    /\ UNCHANGED <<kind, idx, reload, merge>>

\* Files in the order of their names, the order in which they were begun.
ByName(files) == SetToSortSeq(files, LAMBDA f, g : f.mtime < g.mtime)

\* Compact merges two files into a temporary one, named last, which has one of
\* the rows of each entity: of rows of different types the row with the larger
\* first bytes, any of them.
CompactWrites ==
    /\ merge.pc = "none" /\ Cardinality(dir) = 2
    /\ clock < MaxStamps
    /\ clock' = clock + 1
    /\ \E kept \in SUBSET UNION {f.rows : f \in dir} :
          /\ \A f \in dir : \A row \in f.rows : \E w \in kept : w.id = row.id
          /\ \A v, w \in kept : v.id = w.id => v = w
          /\ merge' = [pc |-> "rename", out |-> [mtime |-> clock + 1, rows |-> kept], inputs |-> ByName(dir)]
    /\ UNCHANGED <<kind, dir, memtable, idx, reload, raced>>

\* The rename makes it appear, with the time at which it was written.
CompactRenames ==
    /\ merge.pc = "rename"
    /\ merge' = [merge EXCEPT !.pc = "delete"]
    /\ Appears(merge.out)
    /\ UNCHANGED <<kind, clock, memtable, idx, reload>>

\* The inputs are deleted one by one; an error is ignored.
CompactDeletes ==
    /\ merge.pc = "delete"
    /\ dir' \in {dir, dir \ {Head(merge.inputs)}}
    /\ merge' = IF Len(merge.inputs) = 1 THEN NoMerge ELSE [merge EXCEPT !.inputs = Tail(@)]
    /\ UNCHANGED <<kind, clock, memtable, idx, reload, raced>>

\* An error up to the rename leaves the inputs alone.
CompactFails ==
    /\ merge.pc = "rename"
    /\ merge' = NoMerge
    /\ UNCHANGED <<kind, dir, clock, memtable, idx, reload, raced>>

\* hotReloadLoop, when shouldReload finds a file younger than the last reload;
\* reloadSSTables takes the lock and globs.
StartReload ==
    /\ reload.pc = "idle"
    /\ \E f \in dir : f.mtime > idx.lastReload
    /\ reload' = [pc |-> "locked", todo |-> ByName(dir), got |-> << >>]
    /\ raced' = {}
    /\ UNCHANGED <<kind, dir, clock, memtable, idx, merge>>

\* Mutant: the files are kept oldest first.
ReadsOldestFirst ==
    /\ Locked /\ reload.todo # << >>
    /\ LET f == Head(reload.todo) IN
       reload' = [reload EXCEPT !.todo = Tail(@), !.got = IF f \in dir THEN Append(@, f) ELSE @]
    /\ UNCHANGED <<kind, dir, clock, memtable, idx, merge, raced>>

\* One file is read; one that was deleted since is skipped.
ReadTable ==
    /\ Locked /\ reload.todo # << >>
    /\ LET f == Head(reload.todo) IN
       reload' = [reload EXCEPT !.todo = Tail(@), !.got = IF f \in dir THEN << f >> \o @ ELSE @]
    /\ UNCHANGED <<kind, dir, clock, memtable, idx, merge, raced>>

\* rebuildIndexes, for the files in their order, newest first, and the
\* entities in any order: only vector and edge rows are indexed.
Rebuilt(readers, order, levels) ==
    LET vectors == SelectSeq(order, LAMBDA e : e \in VectorIds(readers))
    IN IF readers = << >> THEN [idx EXCEPT !.readers = << >>]
       ELSE [EmptyIndex EXCEPT
               !.hnsw = FoldLeft(LAMBDA h, e : Add(h, e, levels[e]), EmptyHNSW, vectors),
               !.mapped = ToSet(vectors),
               !.graph = AddEdges(EmptyGraph, FlattenSeq([i \in DOMAIN order |-> SetToSeq(EdgesIn(readers, order[i]))])),
               !.readers = readers]

EndReload(order, levels) ==
    /\ Locked /\ reload.todo = << >>
    /\ ToSet(order) = LoadedIds(reload.got)
    /\ idx' = [Rebuilt(reload.got, order, levels) EXCEPT !.lastReload = clock]
    /\ reload' = Idle
    /\ UNCHANGED <<kind, dir, clock, memtable, merge, raced>>

\* Close: the goroutine stops; compactions go on.
CloseIndex ==
    /\ reload.pc = "idle"
    /\ reload' = [reload EXCEPT !.pc = "stopped"]
    /\ UNCHANGED <<kind, dir, clock, memtable, idx, merge, raced>>

IndexNext ==
    \/ \E e \in Entities, b \in BOOLEAN, l \in NodeLevels, v \in Victims : AddEntity(e, b, l, v)
    \/ \E e \in Entities, v \in Victims : GetEntity(e, v)
    \/ \E e \in Entities : GetNeighbors(e)
    \/ FlushFile
    \/ CompactWrites \/ CompactRenames \/ CompactDeletes \/ CompactFails
    \/ StartReload
    \/ ReadTable
    \/ \E order \in SetToAllKPermutations(Entities), levels \in [Entities -> NodeLevels] :
          EndReload(order, levels)
    \/ CloseIndex

-----------------------------------------------------------------------------
(* Properties.                                                             *)

\* idMapping, reverseMapping and the HNSW graph agree, whatever was added and
\* reloaded in between; a search can find the entities with vector rows in the
\* files of the last reload and those added since, and no others: an entity
\* that was only added before, or that a flush has written, is forgotten. The
\* caches keep their limits and the graph its form.
IndexConsistent ==
    /\ idx.mapped = DOMAIN idx.hnsw.node
    /\ idx.readers # << >> => idx.mapped = idx.fresh \cup VectorIds(idx.readers)
    /\ HNSWWellFormed(idx.hnsw)
    /\ LRUGovernsMaps(idx.graph)
    /\ Cardinality(idx.cache) <= CacheSize

\* shouldReload compares the time of a file with that of the last reload: of
\* the files that are not younger, those that were there when it globbed are
\* loaded, newest first, whatever was flushed, renamed and deleted around it.
ReloadMissesNothing ==
    reload.pc = "idle" =>
        LET seen == {f \in dir : f.mtime <= idx.lastReload} \ raced
        IN SelectSeq(idx.readers, LAMBDA f : f \in seen) = Reverse(ByName(seen))

\* SSTables are reloaded "automatically": when shouldReload says no, every file
\* has been loaded.
ReloadIsComplete ==
    reload.pc = "idle" /\ (\A f \in dir : f.mtime <= idx.lastReload)
        => dir \subseteq ToSet(idx.readers)
=============================================================================
