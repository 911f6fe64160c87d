---------------------------- MODULE EntityCodec ----------------------------
(***************************************************************************)
(* The binary format of entities, edges and chunks (core/entity): ToBytes  *)
(* and FromBytes. It is the format of the log, the memtable and the rows   *)
(* of SSTables.                                                            *)
(*                                                                         *)
(* Bytes are cells: a number of four or eight bytes is one cell, a string  *)
(* or vector is its length and one cell for each element. An edge is the   *)
(* list of its fields from, to, relation, weight and timestamp; an         *)
(* embedding version, timestamp and vector; a chunk id, text and a list of *)
(* metadata, in the order the range over the map gives.                    *)
(*                                                                         *)
(* A time is a number of ticks from the zero time.Time, which is 0, and is *)
(* written as the nanoseconds from the epoch, modulo 2^64 as UnixNano has  *)
(* it; TimeWrap stands for 2^64. As in the code, the zero time is too far  *)
(* from the epoch to be read back: it comes back as another time.          *)
(***************************************************************************)
EXTENDS Integers, Sequences, SequencesExt

Num == "num"
Str == "str"
Timestamp == "time"
EdgeFields == << Str, Str, Str, Num, Timestamp >>
EmbeddingFields == << Num, Timestamp, Str >>
PairFields == << Str, Str >>
HeadFields == << Str, Str, Str >>    \* entity id, tenant, type
TailFields == << Num, Timestamp, Timestamp >>    \* importance, created at, updated at

TimeWrap == 16
UnixEpoch == 40
UnixNano(t) == (t - UnixEpoch) % TimeWrap
TimeUnix(n) == UnixEpoch + (IF n < TimeWrap \div 2 THEN n ELSE n - TimeWrap)

-----------------------------------------------------------------------------
(* ToBytes.                                                                *)

Encode(fields, vals) ==
    FlattenSeq([i \in DOMAIN fields |->
        CASE fields[i] = Num -> << vals[i] >>
          [] fields[i] = Timestamp -> << UnixNano(vals[i]) >>
          [] OTHER -> << Len(vals[i]) >> \o vals[i]])

EncodeAll(enc(_), xs) == << Len(xs) >> \o FlattenSeq([i \in DOMAIN xs |-> enc(xs[i])])

EdgeBytes(e) == Encode(EdgeFields, e)
EmbeddingBytes(m) == Encode(EmbeddingFields, m)
PairBytes(p) == Encode(PairFields, p)
ChunkBytes(c) == Encode(PairFields, << c.id, c.text >>) \o EncodeAll(PairBytes, c.meta)

ToBytes(e) ==
    Encode(HeadFields, e.head) \o EncodeAll(EmbeddingBytes, e.embeddings)
        \o EncodeAll(EdgeBytes, e.incoming) \o EncodeAll(EdgeBytes, e.outgoing)
        \o EncodeAll(ChunkBytes, e.chunks) \o Encode(TailFields, e.tail)

-----------------------------------------------------------------------------
(* FromBytes. A reader goes on from an offset and gives the value and the  *)
(* new offset, or fails when there are not enough data.                    *)

Read(val, at) == [ok |-> TRUE, val |-> val, at |-> at]
Failed == [ok |-> FALSE, val |-> << >>, at |-> 0]

\* Mutant: a number that is missing is zero.
MissingIsZero(d, kind, at) ==
    IF at > Len(d) THEN (IF kind # Str THEN Read(0, at) ELSE Failed)
    ELSE IF kind = Num THEN Read(d[at], at + 1)
    ELSE IF kind = Timestamp THEN Read(TimeUnix(d[at]), at + 1)
    ELSE IF at + d[at] > Len(d) THEN Failed
    ELSE Read(SubSeq(d, at + 1, at + d[at]), at + 1 + d[at])

ReadField(d, kind, at) ==
    IF at > Len(d) THEN Failed
    ELSE IF kind = Num THEN Read(d[at], at + 1)
    ELSE IF kind = Timestamp THEN Read(TimeUnix(d[at]), at + 1)
    ELSE IF at + d[at] > Len(d) THEN Failed
    ELSE Read(SubSeq(d, at + 1, at + d[at]), at + 1 + d[at])

\* The next part, behind what has been read.
Then(r, next) == IF next.ok THEN Read(Append(r.val, next.val), next.at) ELSE Failed

ReadFields(d, fields, at) ==
    FoldLeft(LAMBDA r, kind : IF r.ok THEN Then(r, ReadField(d, kind, r.at)) ELSE Failed,
             Read(<< >>, at), fields)

\* A count and as many values.
ReadAll(d, read(_, _), at) ==
    IF at > Len(d) THEN Failed
    ELSE FoldLeft(LAMBDA r, i : IF r.ok THEN Then(r, read(d, r.at)) ELSE Failed,
                  Read(<< >>, at + 1), [i \in 1 .. d[at] |-> i])

ReadEmbedding(d, at) == ReadFields(d, EmbeddingFields, at)
ReadPair(d, at) == ReadFields(d, PairFields, at)

\* Named parts, one behind the other.
WithPart(r, part, next) ==
    IF next.ok THEN Read(r.val @@ (part :> next.val), next.at) ELSE Failed

ReadParts(d, read(_, _, _), parts, at) ==
    FoldLeft(LAMBDA r, part : IF r.ok THEN WithPart(r, part, read(d, part, r.at)) ELSE Failed,
             Read(<< >>, at), parts)

\* FromBytes of an edge or a chunk does not say how much it took: the caller
\* encodes the value again to find the next offset.
Reencoded(at, r, bytes(_)) == IF r.ok THEN Read(r.val, at + Len(bytes(r.val))) ELSE Failed

ReadEdge(d, at) == Reencoded(at, ReadFields(d, EdgeFields, at), EdgeBytes)

ChunkPart(d, part, at) == IF part = "meta" THEN ReadAll(d, ReadPair, at) ELSE ReadField(d, Str, at)
ReadChunk(d, at) == Reencoded(at, ReadParts(d, ChunkPart, << "id", "text", "meta" >>, at), ChunkBytes)

EntityPart(d, part, at) ==
    CASE part = "head" -> ReadFields(d, HeadFields, at)
      [] part = "embeddings" -> ReadAll(d, ReadEmbedding, at)
      [] part \in {"incoming", "outgoing"} -> ReadAll(d, ReadEdge, at)
      [] part = "chunks" -> ReadAll(d, ReadChunk, at)
      [] part = "tail" -> ReadFields(d, TailFields, at)

FromBytes(d) ==
    ReadParts(d, EntityPart, << "head", "embeddings", "incoming", "outgoing", "chunks", "tail" >>, 1)

-----------------------------------------------------------------------------
(* Properties.                                                             *)

Times(e) ==
    {e.tail[2], e.tail[3]} \cup {e.embeddings[i][2] : i \in DOMAIN e.embeddings}
        \cup {e.incoming[i][5] : i \in DOMAIN e.incoming}
        \cup {e.outgoing[i][5] : i \in DOMAIN e.outgoing}

\* entity.go, edge.go, chunk.go: FromBytes reads what ToBytes has written, empty
\* strings, vectors and lists included, and stops at the last byte. It is the
\* value again when its times are within 2^63 nanoseconds of the epoch, and in
\* any case one that ToBytes writes alike: a time that does not fit is changed
\* by the first round trip and by no other.
RoundTrips(e) ==
    LET d == ToBytes(e)
        r == FromBytes(d)
    IN /\ r.ok /\ r.at = Len(d) + 1 /\ ToBytes(r.val) = d
       /\ (\A t \in Times(e) : TimeUnix(UnixNano(t)) = t) => r.val = e

\* A value that was cut off, as a torn write leaves it, is refused at every cut.
CutIsRefused(e) ==
    LET d == ToBytes(e) IN \A n \in 0 .. Len(d) - 1 : ~FromBytes(SubSeq(d, 1, n)).ok
=============================================================================
