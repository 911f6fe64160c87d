--------------------------- MODULE SSTableFormat ---------------------------
(***************************************************************************)
(* Writing and reading an SSTable (core/storage/sstable). The writer keeps *)
(* the entity it is at and where that entity starts, and builds the index  *)
(* from the changes; the reader takes an index entry and reads on to the   *)
(* offset of the next one. Offsets are counted in rows. A row that is      *)
(* damaged does not match its CRC32.                                       *)
(*                                                                         *)
(* Entity ids are numbers, in their order as strings; 0 is the empty id,   *)
(* which the writer takes for "no entity yet".                             *)
(***************************************************************************)
EXTENDS Naturals, Sequences, SequencesExt

NoEntity == 0
Found(rows) == [ok |-> TRUE, rows |-> rows]
ReadError == [ok |-> FALSE, rows |-> << >>]

\* NewWriter and WriteHeader.
NewWriter == [rows |-> << >>, index |-> << >>, current |-> NoEntity, start |-> 1]

\* The index with the entity the writer is at.
IndexCurrent(w) ==
    IF w.current = NoEntity THEN w.index
    ELSE Append(w.index, [id |-> w.current, offset |-> w.start])

WriteRow(w, row) ==
    LET moved == IF row.id = w.current THEN w
                 ELSE [w EXCEPT !.index = IndexCurrent(w), !.current = row.id,
                                !.start = Len(w.rows) + 1]
    IN [moved EXCEPT !.rows = Append(@, row)]

\* WriteIndex and Close: the index sorted by id, and the footer. The sort is
\* not stable, but rows in order leave no equal ids.
WriteIndex(w) ==
    [rows |-> w.rows,
     index |-> SetToSortSeq(ToSet(IndexCurrent(w)), LAMBDA a, b : a.id < b.id),
     indexOffset |-> Len(w.rows) + 1]

WriteTable(rows) == WriteIndex(FoldLeft(WriteRow, NewWriter, rows))

\* The binary search for the first entry that is not smaller.
SearchIndex(t, id) ==
    LET found == {i \in DOMAIN t.index : t.index[i].id >= id}
    IN IF found = {} THEN Len(t.index) + 1 ELSE CHOOSE i \in found : \A j \in found : i <= j

\* Reader.Get: the rows from the offset of the entity up to the next one, or
\* up to a row of another entity; a damaged row on the way is an error.
Get(t, id) ==
    LET i == SearchIndex(t, id)
        end == IF i + 1 <= Len(t.index) THEN t.index[i + 1].offset ELSE t.indexOffset
        From[o \in Nat] ==
            IF o >= end THEN Found(<< >>)
            ELSE IF t.rows[o].damaged THEN ReadError
            ELSE IF t.rows[o].id # id THEN Found(<< >>)
            ELSE [From[o + 1] EXCEPT !.rows = << t.rows[o] >> \o @]
    IN IF i > Len(t.index) THEN Found(<< >>)
       ELSE IF t.index[i].id # id THEN Found(<< >>)
       ELSE From[t.index[i].offset]

\* MergeReader.Get over tables that are given newest first.
MergeGet(ts, id) ==
    LET all == [i \in DOMAIN ts |-> Get(ts[i], id)]
    IN IF \E i \in DOMAIN ts : ~all[i].ok THEN ReadError
       ELSE Found(FlattenSeq([i \in DOMAIN ts |-> all[i].rows]))

-----------------------------------------------------------------------------
(* Properties, of tables written from rows in the order of their ids.      *)

\* What a reader of one or more tables, newest first, should find.
RowsOf(tables, id) ==
    LET mine == SelectSeq(FlattenSeq(tables), LAMBDA r : r.id = id)
    IN [ok |-> \A i \in DOMAIN mine : ~mine[i].damaged, rows |-> mine]

\* reader.go, Get and MergeReader.Get: the rows of an entity, all of them, the
\* newest table first, and no others; a damaged row spoils the reads of its own
\* entity and of no other, the first and the last of the file included.
GetFindsRows(tables, id) ==
    LET got == MergeGet([i \in DOMAIN tables |-> WriteTable(tables[i])], id)
        want == RowsOf(tables, id)
    IN id # NoEntity => got.ok = want.ok /\ (got.ok => got.rows = want.rows)
=============================================================================
