----------------------------- MODULE WALProofs -----------------------------
(***************************************************************************)
(* Proofs about WAL for every set of clients and entries, every file size  *)
(* and any number of crashes: the type invariant, that acknowledged        *)
(* entries are durable, that the log keeps the order of acknowledgements,  *)
(* and that a replay of a clean log brings every acknowledged entry back.  *)
(***************************************************************************)
EXTENDS WAL, SequenceTheorems, TLAPS

-----------------------------------------------------------------------------
(* The inductive invariant.                                                *)

\* A call inside Append has an entry that nobody has been told of and that no
\* other call has; only a waiting call has an answer.
CallsApart ==
    /\ \A c \in Clients : append[c] # "idle" => entry[c] \in started \ acked
    /\ \A c \in Clients : append[c] = "idle" => entry[c] = None
    /\ \A c \in Clients : append[c] # "waiting" => errCh[c] = "empty"
    /\ \A c, d \in Clients : append[c] # "idle" /\ entry[c] = entry[d] => c = d

\* A request belongs to a call that waits for its answer.
Awaited(req) ==
    /\ append[req.client] = "waiting"
    /\ entry[req.client] = req.entry
    /\ errCh[req.client] = "empty"

\* Every request is awaited, by a call of its own.
RequestsAwaited ==
    /\ \A i \in 1..Len(writeCh) : Awaited(writeCh[i])
    /\ \A i, j \in 1..Len(writeCh) : writeCh[i].client = writeCh[j].client => i = j
    /\ cur # None => Awaited(cur) /\ \A i \in 1..Len(writeCh) : writeCh[i].client # cur.client
    /\ cur = None <=> writer \in {"select", "stopped"}

\* What was acknowledged was appended before.
HistorySound ==
    /\ acked \subseteq started
    /\ \A p \in before : p[1] \in acked

\* The last record of file f has body b.
EndsWith(f, b) == files[f] # << >> /\ files[f][Len(files[f])].body = b

\* The writer appends to the last file, whose last record is the one that it
\* is writing.
WriterAtEnd ==
    /\ up => fileSequence + 1 = Len(files)
    /\ ~up => writer = "select"
    /\ writer = "partial" => EndsWith(Len(files), Torn)
    /\ writer = "sync" => EndsWith(Len(files), cur.entry)

\* Record i of file f is that of entry e.
At(f, i, e) == f \in DOMAIN files /\ i \in 1..Len(files[f]) /\ files[f][i].body = e

\* What is in the log was passed to Append.
WrittenStarted == \A e \in Entries : \A f, i \in Nat : At(f, i, e) => e \in started

IInv ==
    /\ TypeOK
    /\ CallsApart /\ RequestsAwaited /\ HistorySound /\ WriterAtEnd
    /\ WrittenStarted /\ AckedDurable /\ LogKeepsOrder
-----------------------------------------------------------------------------
(* Steps of the disk.                                                      *)

\* The size of a file is a natural number.
LEMMA FileSizeType ==
  ASSUME TypeOK, NEW f \in DOMAIN files
  PROVE  FileSize(f) \in Nat
  <1>1. files[f] \in Seq(Record)
    BY DEF TypeOK
  <1>2. files[f] # << >> => files[f][Len(files[f])] \in Record
    BY <1>1
  <1>3. QED BY <1>2 DEF FileSize, Record

\* Replacing file f leaves the others alone.
LEMMA ReplaceFile ==
  ASSUME TypeOK, NEW f \in DOMAIN files, NEW s \in Seq(Record),
         files' = [files EXCEPT ![f] = s]
  PROVE  /\ files' \in Seq(Seq(Record)) /\ Len(files') = Len(files) /\ files' # << >>
         /\ DOMAIN files' = DOMAIN files
         /\ files'[f] = s /\ \A g \in DOMAIN files : g # f => files'[g] = files[g]
  <1>1. files \in [1..Len(files) -> Seq(Record)] /\ Len(files) \in Nat /\ Len(files) # 0
    BY DEF TypeOK
  <1>2. files' \in [1..Len(files) -> Seq(Record)]
    BY <1>1
  <1>3. files' \in Seq(Seq(Record)) /\ Len(files') = Len(files)
    BY <1>1, <1>2
  <1>4. QED BY <1>1, <1>2, <1>3

\* rotateFile, and New with a full last file, add an empty file.
LEMMA AddFile ==
  ASSUME TypeOK, files' = Append(files, << >>), synced' = Append(synced, 0)
  PROVE  /\ files' \in Seq(Seq(Record)) /\ files' # << >>
         /\ synced' \in Seq(Nat)
         /\ Len(files') = Len(files) + 1 /\ Len(synced') = Len(files')
         /\ files'[Len(files')] = << >>
         /\ \A f \in DOMAIN files :
               f \in DOMAIN files' /\ files'[f] = files[f] /\ synced'[f] = synced[f]
         /\ \A f \in DOMAIN files' : f # Len(files') => f \in DOMAIN files
         /\ \A f \in DOMAIN files' : synced'[f] <= Len(files'[f])
  <1>1. /\ << >> \in Seq(Record) /\ Len(files) \in Nat /\ Len(synced) = Len(files)
        /\ synced \in Seq(Nat) /\ 0 \in Nat
    BY DEF TypeOK
  <1>2. /\ files' \in Seq(Seq(Record)) /\ Len(files') = Len(files) + 1
        /\ files'[Len(files')] = << >>
        /\ \A f \in 1..Len(files) : files'[f] = files[f]
    BY <1>1 DEF TypeOK
  <1>3. /\ synced' \in Seq(Nat) /\ Len(synced') = Len(synced) + 1
        /\ synced'[Len(synced')] = 0
        /\ \A f \in 1..Len(files) : synced'[f] = synced[f]
    BY <1>1, AppendProperties
  <1>4. DOMAIN files = 1..Len(files) /\ DOMAIN files' = 1..Len(files')
    BY <1>1, <1>2 DEF TypeOK
  <1>5. \A f \in DOMAIN files' : synced'[f] <= Len(files'[f])
    <2> TAKE f \in DOMAIN files'
    <2>1. CASE f = Len(files')
      BY <1>1, <1>2, <1>3, <2>1
    <2>2. CASE f # Len(files')
      BY <1>1, <1>2, <1>3, <1>4, <2>2 DEF TypeOK
    <2>3. QED BY <2>1, <2>2
  <1>6. QED BY <1>1, <1>2, <1>3, <1>4, <1>5

\* WritePart appends a torn record to the current file.
LEMMA PartWritten ==
  ASSUME TypeOK, WritePart
  PROVE  \E n \in Nat :
           LET s == Append(files[current], [body |-> Torn, end |-> n])
           IN  s \in Seq(Record) /\ files' = [files EXCEPT ![current] = s]
  <1>1. current \in DOMAIN files
    BY DEF TypeOK, current
  <1>2. PICK n \in PartialBytes : files' = WithRecord(current, Torn, n)
    BY DEF WritePart
  <1>3. FileSize(current) + n \in Nat
    BY <1>1, FileSizeType DEF PartialBytes
  <1>4. [body |-> Torn, end |-> FileSize(current) + n] \in Record
    BY <1>3 DEF Record
  <1>5. files[current] \in Seq(Record)
    BY <1>1 DEF TypeOK
  <1>6. Append(files[current], [body |-> Torn, end |-> FileSize(current) + n]) \in Seq(Record)
    BY <1>4, <1>5, AppendProperties
  <1>7. QED BY <1>2, <1>3, <1>6 DEF WithRecord

\* WriteData replaces the last record of the current file.
LEMMA DataWritten ==
  ASSUME TypeOK, WriterAtEnd, WriteData, cur \in Request
  PROVE  /\ files[current] # << >> /\ current = Len(files)
         /\ \E n \in Nat :
              LET s == [files[current] EXCEPT ![Len(files[current])] = [body |-> cur.entry, end |-> n]]
              IN  s \in Seq(Record) /\ Len(s) = Len(files[current])
                  /\ files' = [files EXCEPT ![current] = s]
  <1> DEFINE l == Len(files[current])
             start == IF l = 1 THEN 0 ELSE files[current][l - 1].end
             r == [body |-> cur.entry, end |-> start + RecordBytes(cur.entry)]
             s == [files[current] EXCEPT ![l] = r]
  <1>1. current \in DOMAIN files /\ current = Len(files)
    BY DEF TypeOK, current, WriterAtEnd, WriteData
  <1>2. files[current] \in Seq(Record) /\ files[current] # << >>
    BY <1>1 DEF TypeOK, WriterAtEnd, WriteData, EndsWith
  <1>3. l \in Nat /\ l > 0
    BY <1>2, EmptySeq
  <1>4. start \in Nat
    <2>1. l # 1 => files[current][l - 1] \in Record
      <3>1. ASSUME NEW n \in Nat, n > 0, n # 1 PROVE n - 1 \in 1..n
        BY <3>1
      <3>2. QED BY <1>2, <1>3, <3>1, ElementOfSeq
    <2>2. QED BY <2>1 DEF Record
  <1>5. r.end \in Nat /\ r \in Record
    BY <1>4, WALAssumption DEF RecordBytes, Record, Request
  <1>6. s \in Seq(Record) /\ Len(s) = l
    <2> HIDE DEF r
    <2>1. l \in 1..Len(files[current])
      BY <1>3
    <2>2. QED BY <1>2, <1>5, <2>1, ExceptSeq
  <1>7. files' = [files EXCEPT ![current] = s]
    BY DEF WriteData
  <1>8. QED BY <1>1, <1>2, <1>5, <1>6, <1>7

\* What a power loss leaves of a file: the synced records, and behind them
\* records that were there or a torn one.
LEMMA RemnantProperties ==
  ASSUME TypeOK, NEW f \in DOMAIN files, NEW s \in Remnants(f)
  PROVE  /\ s \in Seq(Record) /\ synced[f] <= Len(s)
         /\ \A i \in 1..Len(s) :
               \/ i \in 1..Len(files[f]) /\ s[i] = files[f][i]
               \/ i > synced[f] /\ s[i].body = Torn
  <1> DEFINE kept(n) == SubSeq(files[f], 1, n)
             torn(n) == [body |-> Torn, end |-> files[f][n + 1].end]
  <1>1. files[f] \in Seq(Record) /\ Len(files[f]) \in Nat
    BY DEF TypeOK
  <1>2. synced[f] \in Nat /\ synced[f] <= Len(files[f])
    <2>1. synced \in Seq(Nat) /\ f \in 1..Len(synced)
      BY DEF TypeOK
    <2>2. QED BY <2>1, ElementOfSeq DEF TypeOK
  <1>3. ASSUME NEW n \in 0..Len(files[f])
        PROVE  /\ kept(n) \in Seq(Record) /\ Len(kept(n)) = n
               /\ \A i \in 1..n : kept(n)[i] = files[f][i]
    <2>1. \A i \in 1..n : files[f][i] \in Record
      BY <1>1, ElementOfSeq
    <2>2. n \in Int /\ 1 \in Int
      BY <1>1
    <2>3. /\ kept(n) \in Seq(Record) /\ Len(kept(n)) = IF 1 <= n THEN n - 1 + 1 ELSE 0
          /\ \A i \in 1..(n - 1 + 1) : kept(n)[i] = files[f][1 + i - 1]
      BY <2>1, <2>2, SubSeqProperties
    <2>4. QED BY <1>1, <2>3
  <1>4. CASE \E n \in synced[f]..Len(files[f]) : s = kept(n)
    <2>1. PICK n \in synced[f]..Len(files[f]) : s = kept(n)
      BY <1>4
    <2>2. n \in 0..Len(files[f])
      BY <1>1, <1>2
    <2>3. QED BY <1>1, <1>2, <1>3, <2>1, <2>2
  <1>5. CASE \E n \in synced[f]..(Len(files[f]) - 1) : s = Append(kept(n), torn(n))
    <2>1. PICK n \in synced[f]..(Len(files[f]) - 1) : s = Append(kept(n), torn(n))
      BY <1>5
    <2>2. n \in 0..Len(files[f]) /\ n + 1 \in 1..Len(files[f]) /\ n >= synced[f] /\ n \in Nat
      BY <1>1, <1>2
    <2>3. torn(n) \in Record /\ torn(n).body = Torn
      <3>1. files[f][n + 1] \in Record
        BY <1>1, <2>2, ElementOfSeq
      <3>2. QED BY <3>1 DEF Record
    <2>4. kept(n) \in Seq(Record) /\ Len(kept(n)) = n /\ \A i \in 1..n : kept(n)[i] = files[f][i]
      BY <1>3, <2>2
    <2>5. /\ s \in Seq(Record) /\ Len(s) = n + 1
          /\ \A i \in 1..n : s[i] = kept(n)[i]
          /\ s[n + 1] = torn(n)
      <3> HIDE DEF kept, torn
      <3>1. QED BY <2>1, <2>3, <2>4, AppendProperties
    <2>6. QED
      <3> HIDE DEF kept, torn
      <3>1. \A i \in 1..Len(s) : i \in 1..n \/ i = n + 1
        BY <2>2, <2>5
      <3>2. QED BY <1>1, <1>2, <2>2, <2>3, <2>4, <2>5, <3>1
  <1>6. QED BY <1>4, <1>5 DEF Remnants

\* A power loss leaves a remnant of every file, and all of it is synced.
LEMMA PowerLost ==
  ASSUME TypeOK, PowerLoss
  PROVE  /\ files' \in Seq(Seq(Record)) /\ files' # << >> /\ Len(files') = Len(files)
         /\ synced' \in Seq(Nat) /\ Len(synced') = Len(files')
         /\ \A f \in DOMAIN files : files'[f] \in Remnants(f) /\ synced'[f] = Len(files'[f])
  <1>1. Len(files) \in Nat /\ Len(files) # 0 /\ DOMAIN files = 1..Len(files)
    BY DEF TypeOK
  <1>2. DOMAIN files' = 1..Len(files) /\ \A f \in DOMAIN files : files'[f] \in Remnants(f)
    BY <1>1 DEF PowerLoss
  <1>3. \A f \in DOMAIN files : files'[f] \in Seq(Record)
    BY <1>2, RemnantProperties
  <1>4. files' = [f \in 1..Len(files) |-> files'[f]]
    BY DEF PowerLoss, TypeOK
  <1>5. files' \in [1..Len(files) -> Seq(Record)]
    BY <1>1, <1>3, <1>4
  <1>6. files' \in Seq(Seq(Record)) /\ Len(files') = Len(files)
    BY <1>1, <1>5
  <1>7. synced' = [f \in 1..Len(files) |-> Len(files'[f])]
    BY <1>1 DEF PowerLoss
  <1>8. synced' \in [1..Len(files) -> Nat]
    BY <1>1, <1>3, <1>7
  <1>9. synced' \in Seq(Nat) /\ Len(synced') = Len(files)
    BY <1>1, <1>8
  <1>10. QED BY <1>1, <1>2, <1>6, <1>7, <1>9

-----------------------------------------------------------------------------
(* Type correctness.                                                       *)

\* The variables of TypeOK that are not on disk.
ProcessTypeOK ==
    /\ fsync \in FsyncModes /\ up \in BOOLEAN /\ closed \in BOOLEAN
    /\ writeCh \in Seq(Request)
    /\ writer \in {"select", "write", "partial", "sync", "stopped"}
    /\ draining \in BOOLEAN
    /\ cur \in Request \cup {None}
    /\ fileOpen \in BOOLEAN
    /\ currentSize \in Nat
    /\ append \in [Clients -> {"idle", "checked", "waiting"}]
    /\ entry \in [Clients -> Entries \cup {None}]
    /\ errCh \in [Clients -> {"empty", "nil", "error"}]
    /\ started \subseteq Entries /\ acked \subseteq Entries
    /\ before \subseteq Entries \X Entries
    /\ replayed \subseteq Entries
    /\ powerLost \in BOOLEAN
    /\ crashes \in Nat

DiskTypeOK ==
    /\ files \in Seq(Seq(Record)) /\ files # << >>
    /\ synced \in Seq(Nat) /\ Len(synced) = Len(files)
    /\ \A f \in DOMAIN files : synced[f] <= Len(files[f])
    /\ fileSequence \in Nat /\ fileSequence < Len(files)

\* The two parts make up TypeOK.
LEMMA TypeParts == TypeOK <=> ProcessTypeOK /\ DiskTypeOK
  BY DEF TypeOK, ProcessTypeOK, DiskTypeOK

\* The writer answers the caller of the request it has.
LEMMA ServedRequest ==
  ASSUME TypeOK, RequestsAwaited, writer \in {"write", "partial", "sync"}
  PROVE  cur \in Request /\ cur.client \in Clients /\ cur.entry \in Entries
  BY DEF TypeOK, RequestsAwaited, Request

\* The first request of the channel is one, and those behind it stay.
LEMMA TakenRequest ==
  ASSUME TypeOK, Take
  PROVE  /\ Head(writeCh) \in Request /\ Head(writeCh) = writeCh[1] /\ 1 \in 1..Len(writeCh)
         /\ writeCh' \in Seq(Request) /\ Len(writeCh') = Len(writeCh) - 1
         /\ \A i \in 1..Len(writeCh') : i + 1 \in 1..Len(writeCh) /\ writeCh'[i] = writeCh[i + 1]
  <1>1. writeCh \in Seq(Request) /\ writeCh # << >> /\ writeCh' = Tail(writeCh)
    BY DEF Take, TypeOK
  <1>2. Len(writeCh) \in Nat \ {0}
    BY <1>1, EmptySeq
  <1>3. /\ Head(writeCh) \in Request /\ Tail(writeCh) \in Seq(Request)
        /\ Len(Tail(writeCh)) = Len(writeCh) - 1
        /\ \A i \in 1..Len(Tail(writeCh)) : Tail(writeCh)[i] = writeCh[i + 1]
    BY <1>1, HeadTailProperties
  <1>4. Head(writeCh) = writeCh[1]
    BY <1>1
  <1>5. QED BY <1>1, <1>2, <1>3, <1>4

\* A request that a call sends goes to the end of the channel.
LEMMA SentRequest ==
  ASSUME TypeOK, CallsApart, NEW c \in Clients, AppendSend(c)
  PROVE  /\ [client |-> c, entry |-> entry[c]] \in Request
         /\ writeCh' \in Seq(Request) /\ Len(writeCh') = Len(writeCh) + 1
         /\ \A i \in 1..Len(writeCh) : writeCh'[i] = writeCh[i]
         /\ writeCh'[Len(writeCh) + 1] = [client |-> c, entry |-> entry[c]]
  <1>1. [client |-> c, entry |-> entry[c]] \in Request
    BY DEF AppendSend, CallsApart, TypeOK, Request
  <1>2. writeCh \in Seq(Request) /\ writeCh' = Append(writeCh, [client |-> c, entry |-> entry[c]])
    BY DEF AppendSend, TypeOK
  <1>3. QED BY <1>1, <1>2, AppendProperties

\* Replay delivers entries.
LEMMA ReplayType ==
  ASSUME TypeOK
  PROVE  Replay \subseteq Entries
  <1> SUFFICES ASSUME NEW f \in DOMAIN files, NEW i \in DOMAIN files[f], Intact(f, i)
               PROVE  files[f][i].body \in Entries
    BY DEF Replay
  <1>1. files[f] \in Seq(Record)
    BY DEF TypeOK
  <1>2. i \in 1..Len(files[f]) /\ files[f][i] \in Record
    BY <1>1, ElementOfSeq
  <1>3. files[f][i].body # Torn
    BY <1>2 DEF Intact
  <1>4. QED BY <1>2, <1>3 DEF Record

\* Every step keeps the types of the process and of the history.
LEMMA ProcessTypeStep ==
  ASSUME TypeOK, CallsApart, RequestsAwaited, [Next]_vars
  PROVE  ProcessTypeOK'
  <1>0. ProcessTypeOK
    BY TypeParts
  <1> USE <1>0 DEF ProcessTypeOK, diskVars, writerVars, clientVars, historyVars
  <1>1. ASSUME NEW c \in Clients, NEW e \in Entries, AppendCheck(c, e) PROVE ProcessTypeOK'
    BY <1>1 DEF AppendCheck
  <1>2. ASSUME NEW c \in Clients, AppendSend(c) PROVE ProcessTypeOK'
    BY <1>2, SentRequest DEF AppendSend
  <1>3. ASSUME NEW c \in Clients, AppendRefused(c) PROVE ProcessTypeOK'
    BY <1>3 DEF AppendRefused
  <1>4. ASSUME NEW c \in Clients, AppendReturn(c) PROVE ProcessTypeOK'
    <2>1. entry[c] \in Entries
      BY <1>4 DEF AppendReturn, CallsApart
    <2>2. QED BY <1>4, <2>1 DEF AppendReturn
  <1>5. CASE WriterTake
    BY <1>5, TakenRequest DEF WriterTake
  <1>6. CASE WriterRotate
    BY <1>6, TakenRequest DEF WriterRotate
  <1>7. CASE WriterRotateFails
    BY <1>7, TakenRequest DEF WriterRotateFails, Take
  <1>8. CASE WritePart
    BY <1>8 DEF WritePart
  <1>9. CASE WriteData
    BY <1>9, ServedRequest, WALAssumption DEF WriteData, RecordBytes
  <1>10. CASE WriteFails \/ WriterSync \/ WriterSyncFails
    BY <1>10 DEF WriteFails, WriterSync, WriterSyncFails, Answer
  <1>11. CASE WriterDrain \/ WriterStop \/ Close
    BY <1>11 DEF WriterDrain, WriterStop, Close
  <1>12. CASE Crash \/ PowerLoss
    <2>1. /\ Die /\ powerLost' \in BOOLEAN
          /\ UNCHANGED <<fsync, started, acked, before, replayed>>
      BY <1>12 DEF Crash, PowerLoss
    <2>2. /\ up' \in BOOLEAN /\ closed' \in BOOLEAN
          /\ draining' \in BOOLEAN /\ fileOpen' \in BOOLEAN
      BY <2>1 DEF Die
    <2>3. writeCh' = << >> /\ writer' = "select" /\ cur' = None
      BY <2>1 DEF Die
    <2>4. currentSize' \in Nat /\ crashes' \in Nat
      BY <2>1 DEF Die
    <2>5. /\ append' \in [Clients -> {"idle", "checked", "waiting"}]
          /\ entry' \in [Clients -> Entries \cup {None}]
          /\ errCh' \in [Clients -> {"empty", "nil", "error"}]
      BY <2>1 DEF Die
    <2>6. << >> \in Seq(Request)
      OBVIOUS
    <2>7. QED BY <2>1, <2>2, <2>3, <2>4, <2>5, <2>6
  <1>13. CASE Restart
    <2>1. Len(files) \in DOMAIN files
      BY DEF TypeOK
    <2>2. QED BY <1>13, <2>1, ReplayType, FileSizeType DEF Restart
  <1>14. CASE UNCHANGED vars
    BY <1>14 DEF vars
  <1>15. QED
    BY <1>1, <1>2, <1>3, <1>4, <1>5, <1>6, <1>7, <1>8, <1>9, <1>10, <1>11, <1>12, <1>13, <1>14
    DEF Next, Client, Writer

\* A sync of the current file records its length.
LEMMA FileSynced ==
  ASSUME TypeOK, UNCHANGED files,
         synced' = [synced EXCEPT ![current] = Len(files[current])] \/ UNCHANGED synced
  PROVE  /\ synced' \in Seq(Nat) /\ Len(synced') = Len(files')
         /\ \A f \in DOMAIN files' : synced[f] <= synced'[f] /\ synced'[f] <= Len(files'[f])
  <1>1. /\ synced \in Seq(Nat) /\ Len(synced) = Len(files) /\ current \in 1..Len(synced)
        /\ DOMAIN files = 1..Len(synced)
        /\ \A f \in 1..Len(synced) : synced[f] \in Nat /\ synced[f] <= Len(files[f])
    <2>1. synced \in Seq(Nat) /\ Len(synced) = Len(files)
      BY DEF TypeOK
    <2>2. \A f \in 1..Len(synced) : synced[f] \in Nat
      BY <2>1, ElementOfSeq
    <2>3. DOMAIN files = 1..Len(files) /\ current \in 1..Len(files)
      BY DEF TypeOK, current
    <2>4. \A f \in DOMAIN files : synced[f] <= Len(files[f])
      BY DEF TypeOK
    <2>5. QED BY <2>1, <2>2, <2>3, <2>4
  <1>2. Len(files[current]) \in Nat
    BY <1>1 DEF TypeOK
  <1>3. CASE UNCHANGED synced
    BY <1>1, <1>3
  <1>4. CASE synced' = [synced EXCEPT ![current] = Len(files[current])]
    <2>1. synced' \in Seq(Nat) /\ Len(synced') = Len(synced)
      BY <1>1, <1>2, <1>4, ExceptSeq
    <2>2. \A f \in 1..Len(synced) :
             synced'[f] = IF f = current THEN Len(files[current]) ELSE synced[f]
      BY <1>1, <1>2, <1>4, ExceptSeq
    <2>3. files' = files /\ \A f \in 1..Len(synced) : synced[f] <= synced'[f] /\ synced'[f] <= Len(files[f])
      BY <1>1, <1>2, <2>2
    <2>4. QED BY <1>1, <2>1, <2>3
  <1>5. QED BY <1>3, <1>4

\* Every step keeps the types of the disk.
LEMMA DiskTypeStep ==
  ASSUME TypeOK, RequestsAwaited, WriterAtEnd, [Next]_vars
  PROVE  DiskTypeOK'
  <1>0. DiskTypeOK /\ DOMAIN files = 1..Len(files) /\ Len(files) \in Nat /\ current \in DOMAIN files
        /\ Len(files) > 0
    BY TypeParts DEF TypeOK, current
  <1>1. ASSUME UNCHANGED <<files, synced, fileSequence>> PROVE DiskTypeOK'
    BY <1>0, <1>1 DEF DiskTypeOK
  <1> USE DEF diskVars, writerVars, clientVars, historyVars
  <1>2. ASSUME NEW c \in Clients, Client(c) PROVE DiskTypeOK'
    BY <1>1, <1>2 DEF Client, AppendCheck, AppendSend, AppendRefused, AppendReturn
  <1>3. CASE WriterTake \/ WriterRotateFails \/ WriteFails \/ WriterSyncFails \/ WriterDrain \/ Close
    BY <1>1, <1>3
    DEF WriterTake, WriterRotateFails, WriteFails, WriterSyncFails, WriterDrain, Close
  <1>4. CASE WriterRotate
    <2>1. fileSequence' = fileSequence + 1 /\ fileSequence + 1 = Len(files)
      BY <1>4 DEF WriterRotate, Take, WriterAtEnd
    <2>2. QED BY <1>0, <1>4, <2>1, AddFile DEF WriterRotate, DiskTypeOK
  <1>5. CASE WritePart
    <2>1. PICK n \in Nat :
            LET s == Append(files[current], [body |-> Torn, end |-> n])
            IN  s \in Seq(Record) /\ files' = [files EXCEPT ![current] = s]
      BY <1>5, PartWritten
    <2> DEFINE s == Append(files[current], [body |-> Torn, end |-> n])
    <2>2. s \in Seq(Record) /\ files' = [files EXCEPT ![current] = s]
      BY <2>1
    <2>3. Len(s) = Len(files[current]) + 1 /\ Len(files[current]) \in Nat
      BY <1>0 DEF DiskTypeOK
    <2>4. /\ files' \in Seq(Seq(Record)) /\ Len(files') = Len(files) /\ files' # << >>
          /\ DOMAIN files' = DOMAIN files
          /\ files'[current] = s /\ \A g \in DOMAIN files : g # current => files'[g] = files[g]
      <3> HIDE DEF s
      <3>1. QED BY <1>0, <2>2, ReplaceFile
    <2>5. UNCHANGED <<synced, fileSequence>>
      BY <1>5 DEF WritePart
    <2>6. synced[current] \in Nat
      BY <1>0, ElementOfSeq DEF DiskTypeOK
    <2>7. \A f \in DOMAIN files : synced[f] <= Len(files'[f])
      <3> HIDE DEF s
      <3>1. \A f \in DOMAIN files : synced[f] <= Len(files[f])
        BY <1>0 DEF DiskTypeOK
      <3>2. synced[current] <= Len(s)
        BY <1>0, <2>3, <2>6, <3>1
      <3>3. QED BY <2>4, <3>1, <3>2
    <2>8. QED BY <1>0, <2>4, <2>5, <2>7 DEF DiskTypeOK
  <1>6. CASE WriteData
    <2>0. cur \in Request
      BY <1>6, ServedRequest DEF WriteData
    <2>1. PICK s \in Seq(Record) : Len(s) = Len(files[current]) /\ files' = [files EXCEPT ![current] = s]
      BY <1>6, <2>0, DataWritten
    <2>2. /\ files' \in Seq(Seq(Record)) /\ Len(files') = Len(files) /\ files' # << >>
          /\ DOMAIN files' = DOMAIN files
          /\ files'[current] = s /\ \A g \in DOMAIN files : g # current => files'[g] = files[g]
      BY <1>0, <2>1, ReplaceFile
    <2>3. UNCHANGED <<synced, fileSequence>>
      BY <1>6 DEF WriteData
    <2>4. QED BY <1>0, <2>1, <2>2, <2>3 DEF DiskTypeOK
  <1>7. CASE WriterSync \/ WriterStop
    <2>1. /\ UNCHANGED <<files, fileSequence>>
          /\ synced' = [synced EXCEPT ![current] = Len(files[current])] \/ UNCHANGED synced
      BY <1>7 DEF WriterSync, WriterStop
    <2>2. QED BY <1>0, <2>1, FileSynced DEF DiskTypeOK
  <1>8. CASE Crash
    BY <1>0, <1>8 DEF Crash, Die, DiskTypeOK
  <1>9. CASE PowerLoss
    <2>1. fileSequence' = 0
      BY <1>9 DEF PowerLoss, Die
    <2>2. DOMAIN files' = DOMAIN files
      BY <1>0, <1>9, PowerLost
    <2>3. \A f \in DOMAIN files' : synced'[f] <= Len(files'[f])
      <3> TAKE f \in DOMAIN files'
      <3>1. files'[f] \in Seq(Record) /\ synced'[f] = Len(files'[f])
        BY <1>9, <2>2, PowerLost
      <3>2. QED BY <3>1
    <2>4. QED BY <1>0, <1>9, <2>1, <2>3, PowerLost DEF DiskTypeOK
  <1>10. CASE Restart
    <2>1. CASE fileSequence' = Len(files) - 1 /\ UNCHANGED diskVars
      BY <1>0, <2>1 DEF DiskTypeOK
    <2>2. CASE fileSequence' = Len(files) /\ files' = Append(files, << >>) /\ synced' = Append(synced, 0)
      BY <1>0, <2>2, AddFile DEF DiskTypeOK
    <2>3. QED BY <1>10, <2>1, <2>2 DEF Restart
  <1>11. CASE UNCHANGED vars
    BY <1>1, <1>11 DEF vars
  <1>12. QED
    BY <1>2, <1>3, <1>4, <1>5, <1>6, <1>7, <1>8, <1>9, <1>10, <1>11 DEF Next, Writer

-----------------------------------------------------------------------------
(* Calls, requests and history.                                            *)

CallInv == CallsApart /\ RequestsAwaited /\ HistorySound

\* Steps that change neither calls nor requests.
LEMMA CallsAlone ==
  ASSUME CallInv, UNCHANGED <<writeCh, cur, append, entry, errCh, started, acked, before>>,
         writer' \in {"select", "stopped"} <=> writer \in {"select", "stopped"}
  PROVE  CallInv'
  BY DEF CallInv, CallsApart, RequestsAwaited, Awaited, HistorySound

\* The answer to the request being served.
LEMMA AnswerStep ==
  ASSUME TypeOK, CallInv, writer \in {"write", "partial", "sync"},
         NEW result \in {"nil", "error"}, Answer(result),
         UNCHANGED <<writeCh, append, entry, started, acked, before>>
  PROVE  CallInv'
  <1>1. cur \in Request /\ cur.client \in Clients /\ cur.entry \in Entries
    BY ServedRequest DEF CallInv
  <1>2. /\ errCh' = [errCh EXCEPT ![cur.client] = result] /\ writer' = "select" /\ cur' = None
        /\ errCh \in [Clients -> {"empty", "nil", "error"}]
    BY DEF Answer, TypeOK
  <1>3. append[cur.client] = "waiting" /\ cur # None
    BY <1>1, WALAssumption DEF CallInv, RequestsAwaited, Awaited
  <1>4. CallsApart'
    BY <1>1, <1>2, <1>3 DEF CallInv, CallsApart
  <1>5. \A i \in 1..Len(writeCh) : writeCh[i] \in Request /\ writeCh[i].client # cur.client
    <2>1. writeCh \in Seq(Request)
      BY DEF TypeOK
    <2>2. QED BY <1>3, <2>1, ElementOfSeq DEF CallInv, RequestsAwaited
  <1>6. \A i \in 1..Len(writeCh) : Awaited(writeCh[i])'
    BY <1>1, <1>2, <1>5 DEF CallInv, RequestsAwaited, Awaited, Request
  <1>7. RequestsAwaited'
    BY <1>2, <1>6 DEF CallInv, RequestsAwaited
  <1>8. QED BY <1>4, <1>7 DEF CallInv, HistorySound

\* Every step keeps the calls of Append and their requests apart.
LEMMA CallStep ==
  ASSUME TypeOK, CallInv, WriterAtEnd, [Next]_vars
  PROVE  CallInv'
  <1>0. /\ append \in [Clients -> {"idle", "checked", "waiting"}]
        /\ entry \in [Clients -> Entries \cup {None}]
        /\ errCh \in [Clients -> {"empty", "nil", "error"}]
        /\ writeCh \in Seq(Request) /\ Len(writeCh) \in Nat
        /\ \A i \in 1..Len(writeCh) : writeCh[i] \in Request /\ writeCh[i].client \in Clients
        /\ cur # None => cur.client \in Clients
        /\ CallsApart /\ RequestsAwaited /\ HistorySound
    <2>1. writeCh \in Seq(Request)
      BY DEF TypeOK
    <2>2. Len(writeCh) \in Nat /\ \A i \in 1..Len(writeCh) : writeCh[i] \in Request
      BY <2>1, ElementOfSeq
    <2>3. QED BY <2>1, <2>2 DEF TypeOK, CallInv, Request
  <1> USE DEF diskVars, writerVars, clientVars, historyVars
  <1>1. ASSUME NEW c \in Clients, NEW e \in Entries, AppendCheck(c, e) PROVE CallInv'
    <2>1. /\ append' = [append EXCEPT ![c] = "checked"]
          /\ entry' = [entry EXCEPT ![c] = e]
          /\ errCh' = [errCh EXCEPT ![c] = "empty"]
          /\ started' = started \cup {e} /\ before' = before \cup (acked \X {e})
          /\ append[c] = "idle" /\ e \notin started
          /\ UNCHANGED <<writeCh, cur, writer, acked>>
      BY <1>1 DEF AppendCheck
    <2>2. CallsApart'
      <3>1. e \notin acked /\ \A d \in Clients : entry[d] # e
        BY <1>0, <2>1, WALAssumption DEF CallsApart, HistorySound
      <3>2. QED BY <1>0, <2>1, <3>1 DEF CallsApart
    <2>3. \A i \in 1..Len(writeCh) : writeCh[i].client # c
      BY <1>0, <2>1 DEF RequestsAwaited, Awaited
    <2>4. cur # None => cur.client # c
      BY <1>0, <2>1 DEF RequestsAwaited, Awaited
    <2>5. /\ \A i \in 1..Len(writeCh) : Awaited(writeCh[i])'
          /\ cur # None => Awaited(cur)'
      BY <1>0, <2>1, <2>3, <2>4 DEF RequestsAwaited, Awaited
    <2>6. RequestsAwaited'
      BY <1>0, <2>1, <2>5 DEF RequestsAwaited
    <2>7. HistorySound'
      BY <1>0, <2>1 DEF HistorySound
    <2>8. QED BY <2>2, <2>6, <2>7 DEF CallInv
  <1>2. ASSUME NEW c \in Clients, AppendSend(c) PROVE CallInv'
    <2>1. /\ append' = [append EXCEPT ![c] = "waiting"] /\ append[c] = "checked"
          /\ UNCHANGED <<entry, errCh, cur, writer, started, acked, before>>
      BY <1>2 DEF AppendSend
    <2>2. CallsApart' /\ HistorySound'
      BY <1>0, <2>1 DEF CallsApart, HistorySound
    <2>3. /\ Len(writeCh') = Len(writeCh) + 1
          /\ \A i \in 1..Len(writeCh) : writeCh'[i] = writeCh[i]
          /\ writeCh'[Len(writeCh) + 1] = [client |-> c, entry |-> entry[c]]
      BY <1>0, <1>2, SentRequest
    <2>4. \A i \in 1..Len(writeCh) : writeCh[i].client # c /\ Awaited(writeCh[i])
      BY <1>0, <2>1 DEF RequestsAwaited, Awaited
    <2>5. cur # None => cur.client # c /\ Awaited(cur)'
      BY <1>0, <2>1 DEF RequestsAwaited, Awaited
    <2>6. /\ writeCh'[Len(writeCh) + 1].client = c
          /\ writeCh'[Len(writeCh) + 1].entry = entry'[c]
          /\ append'[c] = "waiting" /\ errCh'[c] = "empty"
      BY <1>0, <2>1, <2>3 DEF CallsApart
    <2>7. \A i \in 1..Len(writeCh') : i \in 1..Len(writeCh) \/ i = Len(writeCh) + 1
      BY <1>0, <2>3
    <2>8. \A i \in 1..Len(writeCh') : Awaited(writeCh[i])'
      <3> TAKE i \in 1..Len(writeCh')
      <3>1. CASE i = Len(writeCh) + 1
        BY <2>6, <3>1 DEF Awaited
      <3>2. CASE i \in 1..Len(writeCh)
        BY <1>0, <2>1, <2>3, <2>4, <3>2 DEF Awaited
      <3>3. QED BY <2>7, <3>1, <3>2
    <2>9. \A i, j \in 1..Len(writeCh') : writeCh'[i].client = writeCh'[j].client => i = j
      BY <1>0, <2>3, <2>4, <2>6, <2>7 DEF RequestsAwaited
    <2>10. cur' # None => Awaited(cur)' /\ \A i \in 1..Len(writeCh') : writeCh'[i].client # cur'.client
      BY <1>0, <2>1, <2>3, <2>5, <2>6, <2>7 DEF RequestsAwaited
    <2>11. RequestsAwaited'
      BY <1>0, <2>1, <2>8, <2>9, <2>10 DEF RequestsAwaited
    <2>12. QED BY <2>2, <2>11 DEF CallInv
  <1>3. ASSUME NEW c \in Clients, AppendRefused(c) \/ AppendReturn(c) PROVE CallInv'
    <2>1. /\ append' = [append EXCEPT ![c] = "idle"] /\ entry' = [entry EXCEPT ![c] = None]
          /\ append[c] # "idle" /\ (append[c] = "checked" \/ errCh[c] # "empty")
          /\ UNCHANGED <<writeCh, cur, writer, started, before>>
          /\ acked \subseteq acked' /\ acked' \subseteq acked \cup {entry[c]}
      BY <1>3 DEF AppendRefused, AppendReturn
    <2>2. errCh' = [errCh EXCEPT ![c] = "empty"]
      <3>1. CASE AppendReturn(c)
        BY <3>1 DEF AppendReturn
      <3>2. CASE AppendRefused(c)
        BY <1>0, <3>2 DEF AppendRefused, CallsApart
      <3>3. QED BY <1>3, <3>1, <3>2
    <2>3. CallsApart' /\ HistorySound'
      <3>1. entry[c] \in started \ acked /\ None \notin Entries
        BY <1>0, <2>1, WALAssumption DEF CallsApart
      <3>2. \A d \in Clients : d # c => entry[d] # entry[c]
        BY <1>0, <2>1 DEF CallsApart
      <3>3. \A d \in Clients : append'[d] # "idle" => d # c /\ entry'[d] \in started \ acked'
        BY <1>0, <2>1, <3>2 DEF CallsApart
      <3>4. \A d \in Clients : append'[d] = "idle" => entry'[d] = None
        BY <1>0, <2>1 DEF CallsApart
      <3>5. \A d \in Clients : append'[d] # "waiting" => errCh'[d] = "empty"
        BY <1>0, <2>1, <2>2 DEF CallsApart
      <3>6. \A d, b \in Clients : append'[d] # "idle" /\ entry'[d] = entry'[b] => d = b
        <4> TAKE d, b \in Clients
        <4>1. CASE b = c
          BY <1>0, <2>1, <3>1, <3>3, <4>1 DEF TypeOK
        <4>2. CASE b # c
          BY <1>0, <2>1, <3>3, <4>2 DEF CallsApart
        <4>3. QED BY <4>1, <4>2
      <3>7. CallsApart'
        BY <2>1, <3>3, <3>4, <3>5, <3>6 DEF CallsApart
      <3>8. QED BY <1>0, <2>1, <3>1, <3>7 DEF HistorySound
    <2>4. \A i \in 1..Len(writeCh) : writeCh[i].client # c
      BY <1>0, <2>1 DEF RequestsAwaited, Awaited
    <2>5. cur # None => cur.client # c
      BY <1>0, <2>1 DEF RequestsAwaited, Awaited
    <2>6. /\ \A i \in 1..Len(writeCh) : Awaited(writeCh[i])'
          /\ cur # None => Awaited(cur)'
      BY <1>0, <2>1, <2>2, <2>4, <2>5 DEF RequestsAwaited, Awaited
    <2>7. RequestsAwaited'
      BY <1>0, <2>1, <2>6 DEF RequestsAwaited
    <2>8. QED BY <2>3, <2>7 DEF CallInv
  <1>4. CASE WriterTake \/ WriterRotate
    <2>1. /\ Take /\ cur' = Head(writeCh) /\ writer' = "write"
          /\ UNCHANGED <<append, entry, errCh, started, acked, before>>
      BY <1>4 DEF WriterTake, WriterRotate
    <2>2. /\ Head(writeCh) \in Request /\ Head(writeCh) = writeCh[1] /\ 1 \in 1..Len(writeCh)
          /\ \A i \in 1..Len(writeCh') :
                i \in Nat /\ i + 1 # 1 /\ i + 1 \in 1..Len(writeCh) /\ writeCh'[i] = writeCh[i + 1]
      BY <2>1, TakenRequest
    <2>3. \A i \in 1..Len(writeCh') : Awaited(writeCh[i])'
      BY <1>0, <2>1, <2>2 DEF RequestsAwaited, Awaited
    <2>4. \A i, j \in 1..Len(writeCh') : writeCh'[i].client = writeCh'[j].client => i = j
      <3> TAKE i, j \in 1..Len(writeCh')
      <3>1. writeCh'[i].client = writeCh'[j].client => i + 1 = j + 1
        BY <1>0, <2>2 DEF RequestsAwaited
      <3>2. QED BY <2>2, <3>1
    <2>5. cur' # None /\ Awaited(cur)' /\ \A i \in 1..Len(writeCh') : writeCh'[i].client # cur'.client
      <3>1. cur' # None
        BY <2>1, <2>2, WALAssumption DEF Request
      <3>2. QED BY <1>0, <2>1, <2>2, <3>1 DEF RequestsAwaited, Awaited
    <2>6. RequestsAwaited'
      BY <2>1, <2>3, <2>4, <2>5 DEF RequestsAwaited
    <2>7. QED BY <1>0, <2>1, <2>6 DEF CallInv, CallsApart, HistorySound
  <1>5. CASE WriterRotateFails
    <2> DEFINE c == writeCh[1].client
    <2>1. /\ Take /\ errCh' = [errCh EXCEPT ![Head(writeCh).client] = "error"]
          /\ UNCHANGED <<writer, cur, append, entry, started, acked, before>>
      BY <1>5 DEF WriterRotateFails
    <2>2. /\ Head(writeCh) = writeCh[1] /\ 1 \in 1..Len(writeCh) /\ writeCh[1] \in Request
          /\ \A i \in 1..Len(writeCh') :
                i \in Nat /\ i + 1 # 1 /\ i + 1 \in 1..Len(writeCh) /\ writeCh'[i] = writeCh[i + 1]
      BY <2>1, TakenRequest
    <2>3. c \in Clients /\ append[c] = "waiting" /\ errCh' = [errCh EXCEPT ![c] = "error"]
      BY <1>0, <2>1, <2>2 DEF RequestsAwaited, Awaited
    <2>4. CallsApart' /\ HistorySound'
      <3> HIDE DEF c
      <3>1. QED BY <1>0, <2>1, <2>3 DEF CallsApart, HistorySound
    <2>5. \A i \in 1..Len(writeCh') : writeCh'[i].client # c /\ Awaited(writeCh[i])'
      BY <1>0, <2>1, <2>2, <2>3 DEF RequestsAwaited, Awaited
    <2>6. \A i, j \in 1..Len(writeCh') : writeCh'[i].client = writeCh'[j].client => i = j
      <3> TAKE i, j \in 1..Len(writeCh')
      <3>1. writeCh'[i].client = writeCh'[j].client => i + 1 = j + 1
        BY <1>0, <2>2 DEF RequestsAwaited
      <3>2. QED BY <2>2, <3>1
    <2>7. cur = None /\ writer = "select"
      BY <1>0, <2>1 DEF Take, RequestsAwaited
    <2>8. RequestsAwaited'
      BY <2>1, <2>5, <2>6, <2>7 DEF RequestsAwaited
    <2>9. QED BY <2>4, <2>8 DEF CallInv
  <1>6. CASE WritePart \/ WriteData \/ WriterDrain \/ WriterStop \/ Close \/ Restart
    BY <1>6, CallsAlone
    DEF WritePart, WriteData, WriterDrain, WriterStop, Close, Restart
  <1>7. CASE WriteFails
    BY <1>7, AnswerStep DEF WriteFails
  <1>8. CASE WriterSync
    BY <1>8, AnswerStep DEF WriterSync
  <1>9. CASE WriterSyncFails
    BY <1>9, AnswerStep DEF WriterSyncFails
  <1>10. CASE Crash \/ PowerLoss
    <2>1. /\ Die /\ UNCHANGED <<started, acked, before>>
      BY <1>10 DEF Crash, PowerLoss
    <2>2. /\ writeCh' = << >> /\ cur' = None /\ writer' = "select"
          /\ append' = [c \in Clients |-> "idle"]
          /\ entry' = [c \in Clients |-> None]
          /\ errCh' = [c \in Clients |-> "empty"]
      BY <2>1 DEF Die
    <2>3. QED
      BY <1>0, <2>1, <2>2 DEF CallInv, CallsApart, RequestsAwaited, HistorySound
  <1>11. CASE UNCHANGED vars
    BY <1>11, CallsAlone DEF vars
  <1>12. QED
    BY <1>1, <1>2, <1>3, <1>4, <1>5, <1>6, <1>7, <1>8, <1>9, <1>10, <1>11 DEF Next, Client, Writer

-----------------------------------------------------------------------------
(* The writer is at the end of the log.                                    *)

\* Every step leaves the writer at the end of the log.
LEMMA WriterStep ==
  ASSUME TypeOK, CallInv, WriterAtEnd, [Next]_vars
  PROVE  WriterAtEnd'
  <1>0. /\ DOMAIN files = 1..Len(files) /\ Len(files) \in Nat /\ Len(files) > 0
        /\ current \in DOMAIN files /\ RequestsAwaited /\ fileSequence \in Nat
    BY DEF TypeOK, current, CallInv
  <1>1. ASSUME UNCHANGED <<files, up, writer, cur, fileSequence>> PROVE WriterAtEnd'
    BY <1>1 DEF WriterAtEnd, EndsWith
  <1>2. ASSUME up, UNCHANGED <<files, up, fileSequence>>, writer' \in {"select", "write", "stopped"}
        PROVE  WriterAtEnd'
    BY <1>2 DEF WriterAtEnd
  <1> USE DEF diskVars, writerVars, clientVars, historyVars
  <1>3. ASSUME NEW c \in Clients, Client(c) PROVE WriterAtEnd'
    BY <1>1, <1>3 DEF Client, AppendCheck, AppendSend, AppendRefused, AppendReturn
  <1>4. CASE WriterTake \/ WriterRotateFails \/ WriteFails \/ WriterSync \/ WriterSyncFails \/ WriterStop
    BY <1>2, <1>4
    DEF WriterTake, WriterRotateFails, Take, WriteFails, WriterSync, WriterSyncFails, Answer, WriterStop
  <1>5. CASE WriterDrain \/ Close
    BY <1>1, <1>5 DEF WriterDrain, Close
  <1>6. CASE WriterRotate
    <2>1. up /\ UNCHANGED up /\ writer' = "write" /\ fileSequence' = fileSequence + 1
      BY <1>6 DEF WriterRotate, Take
    <2>2. Len(files') = Len(files) + 1
      BY <1>6, AddFile DEF WriterRotate
    <2>3. QED BY <1>0, <2>1, <2>2 DEF WriterAtEnd
  <1>7. CASE WritePart
    <2>1. PICK n \in Nat :
            LET s == Append(files[current], [body |-> Torn, end |-> n])
            IN  s \in Seq(Record) /\ files' = [files EXCEPT ![current] = s]
      BY <1>7, PartWritten
    <2> DEFINE t == [body |-> Torn, end |-> n]
               s == Append(files[current], t)
    <2>2. s \in Seq(Record) /\ files' = [files EXCEPT ![current] = s] /\ files[current] \in Seq(Record)
      BY <1>0, <2>1 DEF TypeOK
    <2>3. Len(files') = Len(files) /\ files'[current] = s
      <3> HIDE DEF s
      <3>1. QED BY <1>0, <2>2, ReplaceFile
    <2>4. s # << >> /\ s[Len(s)] = t
      BY <2>2, AppendProperties
    <2>5. up /\ UNCHANGED <<up, fileSequence>> /\ writer' = "partial"
      BY <1>7 DEF WritePart
    <2>6. Len(files') = current
      BY <2>3, <2>5 DEF WriterAtEnd, current
    <2>7. EndsWith(Len(files), Torn)'
      <3>1. s[Len(s)].body = Torn
        BY <2>4
      <3> HIDE DEF s
      <3>2. QED BY <2>3, <2>4, <2>6, <3>1 DEF EndsWith
    <2>8. QED BY <2>3, <2>5, <2>7 DEF WriterAtEnd
  <1>8. CASE WriteData
    <2>0. cur \in Request
      BY <1>0, <1>8, ServedRequest DEF WriteData
    <2>1. files[current] # << >> /\ current = Len(files)
      BY <1>8, <2>0, DataWritten
    <2>2. PICK n \in Nat :
              LET s == [files[current] EXCEPT ![Len(files[current])] = [body |-> cur.entry, end |-> n]]
              IN  s \in Seq(Record) /\ Len(s) = Len(files[current])
                  /\ files' = [files EXCEPT ![current] = s]
      BY <1>8, <2>0, DataWritten
    <2> DEFINE l == Len(files[current])
               t == [body |-> cur.entry, end |-> n]
               s == [files[current] EXCEPT ![l] = t]
    <2>3. /\ s \in Seq(Record) /\ Len(s) = l /\ files' = [files EXCEPT ![current] = s]
          /\ files[current] \in Seq(Record)
      BY <1>0, <2>2 DEF TypeOK
    <2>4. Len(files') = Len(files) /\ files'[current] = s
      <3> HIDE DEF s
      <3>1. QED BY <1>0, <2>3, ReplaceFile
    <2>5. s # << >> /\ s[Len(s)] = t
      <3>1. l \in Nat \ {0} /\ l \in DOMAIN files[current]
        BY <2>1, <2>3, EmptySeq, LenProperties
      <3>2. s[l] = t
        BY <3>1
      <3> HIDE DEF s
      <3>3. QED BY <2>3, <3>1, <3>2
    <2>6. up /\ UNCHANGED <<up, fileSequence, cur>> /\ writer' = "sync"
      BY <1>8 DEF WriteData
    <2>7. EndsWith(Len(files), cur.entry)'
      <3>1. t.body = cur.entry
        OBVIOUS
      <3> HIDE DEF s, t
      <3>2. QED BY <2>1, <2>4, <2>5, <2>6, <3>1 DEF EndsWith
    <2>8. QED BY <2>4, <2>6, <2>7 DEF WriterAtEnd
  <1>9. CASE Crash \/ PowerLoss
    BY <1>9 DEF Crash, PowerLoss, Die, WriterAtEnd
  <1>10. CASE Restart
    <2>1. writer' = "select" /\ up'
      BY <1>10 DEF Restart, WriterAtEnd
    <2>2. fileSequence' + 1 = Len(files')
      <3>1. CASE fileSequence' = Len(files) - 1 /\ UNCHANGED diskVars
        BY <1>0, <3>1
      <3>2. CASE fileSequence' = Len(files) /\ files' = Append(files, << >>) /\ synced' = Append(synced, 0)
        BY <1>0, <3>2, AddFile
      <3>3. QED BY <1>10, <3>1, <3>2 DEF Restart
    <2>3. QED BY <2>1, <2>2 DEF WriterAtEnd
  <1>11. CASE UNCHANGED vars
    BY <1>1, <1>11 DEF vars
  <1>12. QED
    BY <1>3, <1>4, <1>5, <1>6, <1>7, <1>8, <1>9, <1>10, <1>11 DEF Next, Writer

-----------------------------------------------------------------------------
(* What a step does to the records.                                        *)

\* No entry leaves its place, or none but those behind the synced records.
Kept == \A e \in Entries : \A f, i \in Nat : At(f, i, e) => At(f, i, e)'
SyncedKept ==
    \A e \in Entries : \A f, i \in Nat : At(f, i, e) /\ i <= synced[f] => At(f, i, e)'

\* No entry comes to a new place, except x at the end of the log.
OnlyAtEnd(x) ==
    \A e \in Entries : \A f, i \in Nat :
        At(f, i, e)' =>
            \/ At(f, i, e)
            \/ e = x /\ f = Len(files') /\ i = Len(files'[f])

\* Places are numbers, and every place of a file is one.
LEMMA Places ==
  ASSUME TypeOK
  PROVE  /\ Len(files) \in Nat /\ DOMAIN files = 1..Len(files)
         /\ \A f \in DOMAIN files :
               /\ f \in Nat /\ files[f] \in Seq(Record)
               /\ Len(files[f]) \in Nat /\ 1..Len(files[f]) \subseteq Nat
               /\ synced[f] \in Nat /\ synced[f] <= Len(files[f])
  <1>1. Len(files) \in Nat /\ DOMAIN files = 1..Len(files)
    BY DEF TypeOK
  <1>2. \A f \in DOMAIN files : f \in Nat /\ files[f] \in Seq(Record)
    BY <1>1 DEF TypeOK
  <1>3. \A f \in DOMAIN files : Len(files[f]) \in Nat /\ 1..Len(files[f]) \subseteq Nat
    BY <1>2
  <1>4. \A f \in DOMAIN files : synced[f] \in Nat
    <2>1. synced \in Seq(Nat) /\ Len(synced) = Len(files)
      BY DEF TypeOK
    <2>2. QED BY <1>1, <2>1, ElementOfSeq
  <1>5. QED BY <1>1, <1>2, <1>3, <1>4 DEF TypeOK

\* Every step but a power loss keeps all entries where they are; a power loss
\* keeps the synced ones.  Only WriteData brings a new entry, that of the request
\* it serves, to the end of the log.
LEMMA RecordStep ==
  ASSUME TypeOK, CallInv, WriterAtEnd, [Next]_vars, NEW x, ~WriteData \/ x = cur.entry
  PROVE  (Kept \/ PowerLoss) /\ SyncedKept /\ OnlyAtEnd(x)
  <1>0. /\ DOMAIN files = 1..Len(files) /\ Len(files) \in Nat
        /\ current \in DOMAIN files /\ RequestsAwaited
        /\ \A f \in DOMAIN files : files[f] \in Seq(Record) /\ Len(files[f]) \in Nat
    BY Places DEF TypeOK, current, CallInv
  <1>1. ASSUME UNCHANGED files PROVE Kept /\ SyncedKept /\ OnlyAtEnd(x)
    BY <1>1 DEF Kept, SyncedKept, OnlyAtEnd, At
  <1>2. ASSUME files' = Append(files, << >>), synced' = Append(synced, 0)
        PROVE  Kept /\ SyncedKept /\ OnlyAtEnd(x)
    <2>1. /\ \A f \in DOMAIN files : f \in DOMAIN files' /\ files'[f] = files[f]
          /\ files'[Len(files')] = << >>
          /\ \A f \in DOMAIN files' : f # Len(files') => f \in DOMAIN files
      BY <1>2, AddFile
    <2>2. \A f \in DOMAIN files' : \A i \in 1..Len(files'[f]) : f \in DOMAIN files /\ files'[f] = files[f]
      BY <2>1
    <2>3. QED BY <2>1, <2>2 DEF Kept, SyncedKept, OnlyAtEnd, At
  <1> USE DEF diskVars, writerVars, clientVars, historyVars
  <1>3. CASE WritePart
    <2>1. PICK n \in Nat :
            LET s == Append(files[current], [body |-> Torn, end |-> n])
            IN  s \in Seq(Record) /\ files' = [files EXCEPT ![current] = s]
      BY <1>3, PartWritten
    <2> DEFINE t == [body |-> Torn, end |-> n]
               s == Append(files[current], t)
               l == Len(files[current])
    <2>2. s \in Seq(Record) /\ files' = [files EXCEPT ![current] = s] /\ files[current] \in Seq(Record)
      BY <1>0, <2>1
    <2>3. /\ DOMAIN files' = DOMAIN files /\ files'[current] = s
          /\ \A g \in DOMAIN files : g # current => files'[g] = files[g]
      <3> HIDE DEF s
      <3>1. QED BY <1>0, <2>2, ReplaceFile
    <2>4. /\ l \in Nat /\ Len(s) = l + 1
          /\ \A i \in 1..l : s[i] = files[current][i]
          /\ s[l + 1].body = Torn
      BY <1>0, <2>2, AppendProperties
    <2>5. \A i \in 1..Len(s) : i \in 1..l \/ i = l + 1
      BY <2>4
    <2> HIDE DEF s, l
    <2>6. \A e \in Entries : \A f, i \in Nat : At(f, i, e) <=> At(f, i, e)'
      <3> TAKE e \in Entries
      <3> TAKE f, i \in Nat
      <3>1. CASE f = current
        <4>1. e # Torn
          BY WALAssumption
        <4>2. QED BY <1>0, <2>3, <2>4, <2>5, <3>1, <4>1 DEF At, l
      <3>2. CASE f # current
        BY <2>3, <3>2 DEF At
      <3>3. QED BY <3>1, <3>2
    <2>7. QED BY <2>6 DEF Kept, SyncedKept, OnlyAtEnd
  <1>4. CASE WriteData
    <2>0. cur \in Request
      BY <1>0, <1>4, ServedRequest DEF WriteData
    <2>1. /\ files[current] # << >> /\ current = Len(files) /\ x = cur.entry
          /\ files[current][Len(files[current])].body = Torn
      BY <1>4, <2>0, DataWritten DEF WriteData, WriterAtEnd, EndsWith
    <2>2. PICK n \in Nat :
              LET s == [files[current] EXCEPT ![Len(files[current])] = [body |-> cur.entry, end |-> n]]
              IN  s \in Seq(Record) /\ Len(s) = Len(files[current])
                  /\ files' = [files EXCEPT ![current] = s]
      BY <1>4, <2>0, DataWritten
    <2> DEFINE l == Len(files[current])
               t == [body |-> cur.entry, end |-> n]
               s == [files[current] EXCEPT ![l] = t]
    <2>3. /\ s \in Seq(Record) /\ Len(s) = l /\ files' = [files EXCEPT ![current] = s]
          /\ files[current] \in Seq(Record) /\ l \in Nat
      BY <1>0, <2>2
    <2>4. /\ DOMAIN files' = DOMAIN files /\ files'[current] = s /\ Len(files') = Len(files)
          /\ \A g \in DOMAIN files : g # current => files'[g] = files[g]
      <3> HIDE DEF s
      <3>1. QED BY <1>0, <2>3, ReplaceFile
    <2>5. /\ \A i \in 1..l : i # l => s[i] = files[current][i]
          /\ l \in 1..l => s[l].body = x
      <3>1. DOMAIN files[current] = 1..l
        BY <2>3
      <3>2. QED BY <2>1, <3>1
    <2> HIDE DEF s, l
    <2>6. \A e \in Entries : \A f, i \in Nat :
             /\ At(f, i, e) => At(f, i, e)'
             /\ At(f, i, e)' => At(f, i, e) \/ (e = x /\ f = current /\ i = l)
      <3> TAKE e \in Entries
      <3> TAKE f, i \in Nat
      <3>1. CASE f = current
        <4>1. e # Torn
          BY WALAssumption
        <4>2. QED BY <1>0, <2>1, <2>3, <2>4, <2>5, <3>1, <4>1 DEF At, l
      <3>2. CASE f # current
        BY <2>4, <3>2 DEF At
      <3>3. QED BY <3>1, <3>2
    <2>7. QED BY <2>1, <2>3, <2>4, <2>6 DEF Kept, SyncedKept, OnlyAtEnd
  <1>5. CASE PowerLoss
    <2>1. DOMAIN files' = DOMAIN files
      BY <1>0, <1>5, PowerLost
    <2>2. ASSUME NEW f \in DOMAIN files
          PROVE  /\ files'[f] \in Seq(Record) /\ synced[f] <= Len(files'[f])
                 /\ \A i \in 1..Len(files'[f]) :
                       \/ i \in 1..Len(files[f]) /\ files'[f][i] = files[f][i]
                       \/ i > synced[f] /\ files'[f][i].body = Torn
      BY <1>5, PowerLost, RemnantProperties
    <2>3. ASSUME NEW e \in Entries, NEW f \in Nat, NEW i \in Nat, At(f, i, e)' PROVE At(f, i, e)
      <3>1. f \in DOMAIN files /\ i \in 1..Len(files'[f]) /\ files'[f][i].body = e
        BY <2>1, <2>3 DEF At
      <3>2. e # Torn
        BY WALAssumption
      <3>3. QED BY <2>2, <3>1, <3>2 DEF At
    <2>4. ASSUME NEW e \in Entries, NEW f \in Nat, NEW i \in Nat, At(f, i, e), i <= synced[f]
          PROVE  At(f, i, e)'
      <3>1. f \in DOMAIN files /\ i \in 1..Len(files[f]) /\ files[f][i].body = e
        BY <2>4 DEF At
      <3>2. /\ files'[f] \in Seq(Record) /\ synced[f] <= Len(files'[f])
            /\ \A j \in 1..Len(files'[f]) : files'[f][j] = files[f][j] \/ j > synced[f]
        BY <2>2, <3>1
      <3>3. synced[f] \in Nat /\ Len(files'[f]) \in Nat /\ 1 <= i
        BY <1>0, <3>1, <3>2, Places
      <3>4. i \in 1..Len(files'[f]) /\ ~(i > synced[f])
        BY <2>4, <3>2, <3>3
      <3>5. QED BY <2>1, <3>1, <3>2, <3>4 DEF At
    <2>5. QED BY <1>5, <2>3, <2>4 DEF SyncedKept, OnlyAtEnd
  <1>6. CASE WriterRotate
    BY <1>2, <1>6 DEF WriterRotate
  <1>7. CASE Restart
    BY <1>1, <1>2, <1>7 DEF Restart
  <1>8. CASE (\E c \in Clients : Client(c)) \/ Close \/ Crash
    BY <1>1, <1>8 DEF Client, AppendCheck, AppendSend, AppendRefused, AppendReturn, Close, Crash
  <1>9. CASE \/ WriterTake \/ WriterRotateFails \/ WriteFails
             \/ WriterSync \/ WriterSyncFails \/ WriterDrain \/ WriterStop
    BY <1>1, <1>9
    DEF WriterTake, WriterRotateFails, WriteFails, WriterSync, WriterSyncFails, WriterDrain, WriterStop
  <1>10. CASE UNCHANGED vars
    BY <1>1, <1>10 DEF vars
  <1>11. QED
    BY <1>3, <1>4, <1>5, <1>6, <1>7, <1>8, <1>9, <1>10 DEF Next, Writer

\* The synced part of a file never shrinks.
LEMMA SyncedGrows ==
  ASSUME TypeOK, [Next]_vars, NEW f \in DOMAIN files
  PROVE  f \in DOMAIN files' /\ synced[f] <= synced'[f]
  <1>0. synced[f] \in Nat
    BY Places
  <1>1. ASSUME UNCHANGED diskVars PROVE f \in DOMAIN files' /\ synced[f] <= synced'[f]
    BY <1>0, <1>1 DEF diskVars
  <1>2. ASSUME UNCHANGED files,
               synced' = [synced EXCEPT ![current] = Len(files[current])] \/ UNCHANGED synced
        PROVE  f \in DOMAIN files' /\ synced[f] <= synced'[f]
    BY <1>2, FileSynced
  <1>3. ASSUME files' = Append(files, << >>), synced' = Append(synced, 0)
        PROVE  f \in DOMAIN files' /\ synced[f] <= synced'[f]
    BY <1>0, <1>3, AddFile
  <1> USE DEF diskVars, writerVars, clientVars, historyVars
  <1>4. CASE WritePart
    <2>1. DOMAIN files' = DOMAIN files /\ UNCHANGED synced
      BY <1>4 DEF WritePart, WithRecord
    <2>2. QED BY <1>0, <2>1
  <1>5. CASE WriteData
    <2>1. DOMAIN files' = DOMAIN files /\ UNCHANGED synced
      BY <1>5 DEF WriteData
    <2>2. QED BY <1>0, <2>1
  <1>6. CASE PowerLoss
    <2>1. f \in DOMAIN files' /\ files'[f] \in Remnants(f) /\ synced'[f] = Len(files'[f])
      BY <1>6, PowerLost, Places DEF PowerLoss
    <2>2. QED BY <2>1, RemnantProperties
  <1>7. CASE WriterSync \/ WriterStop
    BY <1>2, <1>7 DEF WriterSync, WriterStop
  <1>8. CASE WriterRotate
    BY <1>3, <1>8 DEF WriterRotate
  <1>9. CASE Restart
    BY <1>1, <1>3, <1>9 DEF Restart
  <1>10. CASE \/ WriterTake \/ WriterRotateFails \/ WriteFails \/ WriterSyncFails
              \/ WriterDrain \/ Close \/ Crash
    BY <1>1, <1>10
    DEF WriterTake, WriterRotateFails, WriteFails, WriterSyncFails, WriterDrain, Close, Crash
  <1>11. CASE \E c \in Clients : Client(c)
    BY <1>1, <1>11 DEF Client, AppendCheck, AppendSend, AppendRefused, AppendReturn
  <1>12. CASE UNCHANGED vars
    BY <1>1, <1>12 DEF vars
  <1>13. QED
    BY <1>4, <1>5, <1>6, <1>7, <1>8, <1>9, <1>10, <1>11, <1>12 DEF Next, Writer

-----------------------------------------------------------------------------
(* Acknowledged entries are durable.                                       *)

\* The entries acknowledged or about to be, and what that promises.
Told == acked \cup {entry[c] : c \in {d \in Clients : errCh[d] = "nil"}}
Durable(e) == IF fsync THEN OnStableStorage(e) ELSE powerLost \/ OnDisk(e)

\* AckedDurable in these terms.
LEMMA AckedDurableParts == AckedDurable <=> \A e \in Told : Durable(e)
  BY DEF AckedDurable, Told, Durable

\* Both kinds of presence are a place of the log.
Placed ==
    /\ \A f \in DOMAIN files : synced[f] \in Nat
    /\ \A e \in Entries : OnDisk(e) <=> \E f, i \in Nat : At(f, i, e)
    /\ \A e \in Entries : OnStableStorage(e) <=> \E f, i \in Nat : At(f, i, e) /\ i <= synced[f]

\* A log of the right type has its entries at places.
LEMMA PlaceOf == TypeOK => Placed
  <1> SUFFICES ASSUME TypeOK PROVE Placed
    OBVIOUS
  <1>1. ASSUME NEW f \in DOMAIN files, NEW i \in 1..synced[f] PROVE i \in 1..Len(files[f]) /\ i \in Nat
    BY Places
  <1>2. ASSUME NEW f \in DOMAIN files, NEW i \in 1..Len(files[f]), i <= synced[f] PROVE i \in 1..synced[f]
    BY <1>2, Places
  <1>3. \A f \in DOMAIN files : f \in Nat /\ 1..Len(files[f]) \subseteq Nat /\ synced[f] \in Nat
    BY Places
  <1>4. ASSUME NEW e \in Entries PROVE OnDisk(e) <=> \E f, i \in Nat : At(f, i, e)
    BY <1>3 DEF OnDisk, At
  <1>5. ASSUME NEW e \in Entries, OnStableStorage(e) PROVE \E f, i \in Nat : At(f, i, e) /\ i <= synced[f]
    <2>0. PICK f \in DOMAIN files : \E i \in 1..synced[f] : files[f][i].body = e
      BY <1>5 DEF OnStableStorage
    <2>1. PICK i \in 1..synced[f] : files[f][i].body = e
      BY <2>0
    <2>2. f \in Nat /\ i \in 1..Len(files[f]) /\ i \in Nat /\ i <= synced[f]
      BY <1>1, <1>3
    <2>3. QED BY <2>1, <2>2 DEF At
  <1>6. ASSUME NEW e \in Entries, NEW f \in Nat, NEW i \in Nat, At(f, i, e), i <= synced[f]
        PROVE  OnStableStorage(e)
    BY <1>2, <1>6 DEF OnStableStorage, At
  <1>7. QED BY <1>3, <1>4, <1>5, <1>6 DEF Placed

\* What is durable stays durable.
LEMMA DurableKept ==
  ASSUME TypeOK, TypeOK', CallInv, WriterAtEnd, [Next]_vars, NEW e \in Entries, Durable(e)
  PROVE  Durable(e)'
  <1> USE DEF diskVars, writerVars, clientVars, historyVars
  <1>0. Placed /\ Placed'
    BY PlaceOf, PTL
  <1>1. (Kept \/ PowerLoss) /\ SyncedKept
    BY RecordStep
  <1>2. fsync' = fsync /\ (powerLost => powerLost') /\ (PowerLoss => powerLost')
    <2>1. PowerLoss => fsync' = fsync /\ powerLost'
      BY Zenon DEF PowerLoss
    <2>2. Next /\ ~PowerLoss => UNCHANGED <<fsync, powerLost>>
      BY DEF Next, Writer, Client, AppendCheck, AppendSend, AppendRefused, AppendReturn,
             WriterTake, WriterRotate, WriterRotateFails, WritePart, WriteData, WriteFails,
             WriterSync, WriterSyncFails, WriterDrain, WriterStop, Close, Crash, Restart
    <2>3. UNCHANGED vars => UNCHANGED <<fsync, powerLost>>
      BY DEF vars
    <2>4. QED BY <2>1, <2>2, <2>3
  <1>3. ASSUME OnStableStorage(e) PROVE OnStableStorage(e)'
    <2>1. PICK f \in Nat, i \in Nat : At(f, i, e) /\ i <= synced[f]
      BY <1>0, <1>3 DEF Placed
    <2>2. At(f, i, e)'
      BY <1>1, <2>1 DEF SyncedKept
    <2>3. f \in DOMAIN files /\ synced[f] \in Nat
      BY <2>1, <1>0 DEF At, Placed
    <2>4. f \in DOMAIN files' /\ synced[f] <= synced'[f]
      BY <2>3, SyncedGrows
    <2>5. synced'[f] \in Nat
      BY <1>0, <2>4 DEF Placed
    <2>6. i <= synced'[f]
      BY <2>1, <2>3, <2>4, <2>5
    <2>7. QED BY <1>0, <2>2, <2>6 DEF Placed
  <1>4. ASSUME OnDisk(e), ~PowerLoss PROVE OnDisk(e)'
    BY <1>0, <1>1, <1>4 DEF Placed, Kept
  <1>5. QED BY <1>2, <1>3, <1>4 DEF Durable

\* Only the answer of WriterSync tells of a new entry, and that is durable.
LEMMA ToldStep ==
  ASSUME TypeOK, CallInv, [Next]_vars, NEW e \in Told'
  PROVE  e \in Told \/ (WriterSync /\ e = cur.entry)
  <1>0. CallsApart /\ RequestsAwaited /\ errCh \in [Clients -> {"empty", "nil", "error"}]
        /\ entry \in [Clients -> Entries \cup {None}] /\ append \in [Clients -> {"idle", "checked", "waiting"}]
    BY DEF CallInv, TypeOK
  <1> USE DEF diskVars, writerVars, clientVars, historyVars, Told
  <1>1. ASSUME UNCHANGED <<acked, entry, errCh>> PROVE e \in Told
    BY <1>1
  <1>2. ASSUME NEW c \in Clients, NEW d \in Entries, AppendCheck(c, d) PROVE e \in Told
    BY <1>0, <1>2 DEF AppendCheck
  <1>3. ASSUME NEW c \in Clients, AppendSend(c) PROVE e \in Told
    BY <1>1, <1>3 DEF AppendSend
  <1>4. ASSUME NEW c \in Clients, AppendRefused(c) PROVE e \in Told
    <2>1. errCh[c] = "empty" /\ UNCHANGED <<acked, errCh>> /\ entry' = [entry EXCEPT ![c] = None]
      BY <1>0, <1>4 DEF AppendRefused, CallsApart
    <2>2. QED BY <1>0, <2>1
  <1>5. ASSUME NEW c \in Clients, AppendReturn(c) PROVE e \in Told
    BY <1>0, <1>5 DEF AppendReturn
  <1>6. CASE WriterSync
    <2>1. cur.client \in Clients /\ entry[cur.client] = cur.entry
      <3>1. cur \in Request
        BY <1>0, <1>6, ServedRequest DEF WriterSync
      <3>2. cur # None
        BY <3>1, WALAssumption DEF Request
      <3>3. QED BY <1>0, <3>1, <3>2 DEF RequestsAwaited, Awaited, Request
    <2>2. UNCHANGED <<acked, entry>> /\ errCh' = [errCh EXCEPT ![cur.client] = "nil"]
      BY <1>6 DEF WriterSync, Answer
    <2>3. QED BY <1>0, <1>6, <2>1, <2>2
  <1>7. ASSUME NEW c \in Clients, UNCHANGED <<acked, entry>>, errCh' = [errCh EXCEPT ![c] = "error"]
        PROVE  e \in Told
    BY <1>0, <1>7
  <1>8. CASE WriteFails \/ WriterSyncFails
    <2>1. cur.client \in Clients
      BY <1>0, <1>8, ServedRequest DEF WriteFails, WriterSyncFails
    <2>2. QED BY <1>7, <1>8, <2>1 DEF WriteFails, WriterSyncFails, Answer
  <1>9. CASE WriterRotateFails
    <2>1. Head(writeCh).client \in Clients
      BY <1>9, TakenRequest DEF WriterRotateFails, Request
    <2>2. QED BY <1>7, <1>9, <2>1 DEF WriterRotateFails
  <1>10. CASE Crash \/ PowerLoss
    BY <1>10 DEF Crash, PowerLoss, Die
  <1>11. CASE \/ WriterTake \/ WriterRotate \/ WritePart \/ WriteData
              \/ WriterDrain \/ WriterStop \/ Close \/ Restart
    BY <1>1, <1>11
    DEF WriterTake, WriterRotate, WritePart, WriteData, WriterDrain, WriterStop, Close, Restart
  <1>12. CASE UNCHANGED vars
    BY <1>1, <1>12 DEF vars
  <1>13. QED
    BY <1>2, <1>3, <1>4, <1>5, <1>6, <1>8, <1>9, <1>10, <1>11, <1>12 DEF Next, Writer, Client

\* The answer comes after the record of the entry is the last of the log and,
\* with Fsync, after the file is synced to its end.
LEMMA SyncDurable ==
  ASSUME TypeOK, TypeOK', CallInv, WriterAtEnd, WriterSync, NEW e \in Entries, e = cur.entry
  PROVE  Durable(e)'
  <1>1. Placed /\ Placed'
    BY PlaceOf, PTL
  <1>2. PICK f \in Nat : f = current
    BY DEF current, TypeOK
  <1>3. PICK n \in Nat : n = Len(files[f])
    BY <1>2, Places DEF current, TypeOK
  <1>4. /\ UNCHANGED <<files, fsync>>
        /\ synced' = IF fsync THEN [synced EXCEPT ![f] = n] ELSE synced
    BY <1>2, <1>3 DEF WriterSync
  <1>5. /\ f \in DOMAIN files /\ files[f] # << >> /\ files[f][n].body = e
        /\ files[f] \in Seq(Record) /\ f \in DOMAIN synced
    BY <1>2, <1>3, Places DEF WriterAtEnd, WriterSync, EndsWith, current, TypeOK
  <1>6. n \in 1..Len(files[f])
    BY <1>3, <1>5, EmptySeq
  <1>7. At(f, n, e)'
    BY <1>4, <1>5, <1>6 DEF At
  <1>8. fsync' => n <= synced'[f]
    BY <1>4, <1>5
  <1>9. QED BY <1>1, <1>7, <1>8 DEF Durable, Placed

\* Every step keeps the acknowledged entries durable.
LEMMA DurableStep ==
  ASSUME TypeOK, TypeOK', CallInv, WriterAtEnd, AckedDurable, [Next]_vars
  PROVE  AckedDurable'
  <1>1. Told \subseteq Entries
    <2>1. \A c \in Clients : errCh[c] = "nil" => append[c] = "waiting"
      BY DEF CallInv, CallsApart
    <2>2. \A c \in Clients : append[c] = "waiting" => entry[c] \in started
      BY DEF CallInv, CallsApart
    <2>3. started \subseteq Entries /\ acked \subseteq Entries
      BY DEF TypeOK
    <2>4. QED BY <2>1, <2>2, <2>3 DEF Told
  <1>2. \A e \in Told : Durable(e)
    BY AckedDurableParts
  <1>3. ASSUME NEW e \in Told' PROVE Durable(e)'
    <2>1. CASE e \in Told
      BY <1>1, <1>2, <2>1, DurableKept
    <2>2. CASE WriterSync /\ e = cur.entry
      <3>1. e \in Entries
        BY <2>2, ServedRequest DEF WriterSync, CallInv
      <3>2. QED BY <2>2, <3>1, SyncDurable
    <2>3. QED BY <2>1, <2>2, ToldStep
  <1>4. (AckedDurable <=> \A e \in Told : Durable(e))'
    BY AckedDurableParts, PTL
  <1>5. QED BY <1>3, <1>4

-----------------------------------------------------------------------------
(* The log keeps the order of the acknowledgements.                        *)

\* Only the entry of a call in flight comes to the log.
LEMMA StartedStep ==
  ASSUME TypeOK, CallInv, WriterAtEnd, WrittenStarted, [Next]_vars
  PROVE  WrittenStarted'
  <1>1. OnlyAtEnd(cur.entry)
    BY RecordStep
  <1>2. started \subseteq started'
    BY DEF Next, Writer, Client, vars, AppendCheck, AppendSend, AppendRefused, AppendReturn,
           WriterTake, WriterRotate, WriterRotateFails, WritePart, WriteData, WriteFails,
           WriterSync, WriterSyncFails, WriterDrain, WriterStop, Close, Crash, PowerLoss, Restart,
           historyVars
  <1>3. CASE WriteData
    <2>1. cur.entry \in started
      BY <1>3, ServedRequest, WALAssumption
      DEF WriteData, CallInv, RequestsAwaited, Awaited, CallsApart, Request
    <2>2. QED BY <1>1, <1>2, <2>1 DEF WrittenStarted, OnlyAtEnd
  <1>4. CASE ~WriteData
    <2>1. OnlyAtEnd(Torn)
      BY <1>4, RecordStep
    <2>2. \A e \in Entries : e # Torn
      BY WALAssumption
    <2>3. QED BY <1>2, <2>1, <2>2 DEF WrittenStarted, OnlyAtEnd
  <1>5. QED BY <1>3, <1>4

\* The order of the log, place by place.
Ordered ==
    \A p \in before : \A f, g, i, j \in Nat :
        At(f, i, p[1]) /\ At(g, j, p[2]) => f < g \/ (f = g /\ i < j)

\* LogKeepsOrder in these terms.
LEMMA OrderParts == TypeOK => (LogKeepsOrder <=> Ordered)
  <1> SUFFICES ASSUME TypeOK PROVE LogKeepsOrder <=> Ordered
    OBVIOUS
  <1>1. \A f \in DOMAIN files : f \in Nat /\ 1..Len(files[f]) \subseteq Nat
    BY Places
  <1>2. ASSUME Ordered PROVE LogKeepsOrder
    BY <1>1, <1>2 DEF Ordered, At, LogKeepsOrder
  <1>3. ASSUME LogKeepsOrder PROVE Ordered
    BY <1>3 DEF Ordered, At, LogKeepsOrder
  <1>4. QED BY <1>2, <1>3

\* A new entry comes to the end of the log, behind every acknowledged one; a
\* call that begins now has an entry that is nowhere in the log.
LEMMA OrderStep ==
  ASSUME TypeOK, TypeOK', CallInv, WriterAtEnd, WrittenStarted, LogKeepsOrder, [Next]_vars
  PROVE  LogKeepsOrder'
  <1> USE DEF diskVars, writerVars, clientVars, historyVars
  <1>0. Ordered /\ (LogKeepsOrder' <=> Ordered') /\ before \subseteq Entries \X Entries
    BY OrderParts, PTL DEF TypeOK
  <1>1. CASE \E c \in Clients, e \in Entries : AppendCheck(c, e)
    <2>1. PICK c \in Clients, e \in Entries : AppendCheck(c, e)
      BY <1>1
    <2>2. UNCHANGED files /\ before' = before \cup (acked \X {e}) /\ e \notin started
      BY <2>1 DEF AppendCheck
    <2>3. \A f, i \in Nat : ~At(f, i, e)
      BY <2>2 DEF WrittenStarted
    <2>4. \A x : \A f, i \in Nat : At(f, i, x)' <=> At(f, i, x)
      BY <2>2 DEF At
    <2>5. Ordered'
      BY <1>0, <2>2, <2>3, <2>4 DEF Ordered
    <2>6. QED BY <1>0, <2>5
  <1>2. CASE ~ \E c \in Clients, e \in Entries : AppendCheck(c, e)
    <2>1. UNCHANGED before
      BY <1>2 DEF Next, Writer, Client, vars, AppendSend, AppendRefused, AppendReturn,
           WriterTake, WriterRotate, WriterRotateFails, WritePart, WriteData, WriteFails,
           WriterSync, WriterSyncFails, WriterDrain, WriterStop, Close, Crash, PowerLoss, Restart
    <2>2. PICK x : OnlyAtEnd(x) /\ \A p \in before : p[1] # x
      <3>1. CASE WriteData
        <4>1. cur.entry \notin acked
          BY <3>1, ServedRequest, WALAssumption
          DEF WriteData, CallInv, RequestsAwaited, Awaited, CallsApart, Request
        <4>2. OnlyAtEnd(cur.entry)
          BY RecordStep
        <4>3. QED BY <4>1, <4>2 DEF CallInv, HistorySound
      <3>2. CASE ~WriteData
        <4>1. OnlyAtEnd(Torn)
          BY <3>2, RecordStep
        <4>2. \A p \in before : p[1] # Torn
          BY <1>0, WALAssumption
        <4>3. QED BY <4>1, <4>2
      <3>3. QED BY <3>1, <3>2
    <2>3. /\ Len(files') \in Nat /\ DOMAIN files' = 1..Len(files')
          /\ \A f \in DOMAIN files' : Len(files'[f]) \in Nat
      BY DEF TypeOK
    <2>4. SUFFICES ASSUME NEW p \in before, NEW f \in Nat, NEW g \in Nat, NEW i \in Nat, NEW j \in Nat,
                          At(f, i, p[1])', At(g, j, p[2])'
                   PROVE  f < g \/ (f = g /\ i < j)
      BY <1>0, <2>1 DEF Ordered
    <2>5. p[1] \in Entries /\ p[2] \in Entries
      BY <1>0
    <2>6. At(f, i, p[1])
      BY <2>2, <2>4, <2>5 DEF OnlyAtEnd
    <2>7. CASE At(g, j, p[2])
      BY <1>0, <2>6, <2>7 DEF Ordered
    <2>8. CASE p[2] = x /\ g = Len(files') /\ j = Len(files'[g])
      <3>1. f \in 1..Len(files') /\ i \in 1..Len(files'[f]) /\ Len(files'[f]) \in Nat
        BY <2>3, <2>4 DEF At
      <3>2. ~(f = g /\ i = j)
        BY <2>2, <2>4, <2>8 DEF At
      <3>3. f < g \/ f = g
        <4>1. f <= g
          BY <2>3, <2>8, <3>1
        <4>2. QED BY <4>1
      <3>4. f = g => i < j
        BY <2>8, <3>1, <3>2
      <3>5. QED BY <3>3, <3>4
    <2>9. QED BY <2>2, <2>4, <2>5, <2>7, <2>8 DEF OnlyAtEnd
  <1>3. QED BY <1>1, <1>2

-----------------------------------------------------------------------------
(* The theorems.                                                           *)

\* The invariant holds in the initial state: an empty log and no calls.
LEMMA InitInv == Init => IInv
  <1> SUFFICES ASSUME Init PROVE IInv
    OBVIOUS
  <1>1. files = << << >> >> /\ synced = <<0>> /\ fileSequence = 0
    BY DEF Init
  <1>2. << >> \in Seq(Record) /\ 0 \in Nat
    OBVIOUS
  <1>3. files \in Seq(Seq(Record)) /\ files # << >> /\ Len(files) = 1 /\ files[1] = << >>
        /\ synced \in Seq(Nat) /\ Len(synced) = 1 /\ synced[1] = 0
        /\ DOMAIN files = {1}
    BY <1>1, <1>2
  <1>4. DiskTypeOK
    BY <1>1, <1>3 DEF DiskTypeOK
  <1>5. ProcessTypeOK
    <2>1. fsync \in FsyncModes /\ up \in BOOLEAN /\ closed \in BOOLEAN /\ draining \in BOOLEAN
          /\ fileOpen \in BOOLEAN /\ powerLost \in BOOLEAN
      BY Zenon DEF Init
    <2>2. QED BY <2>1 DEF Init, ProcessTypeOK
  <1>6. TypeOK
    BY <1>4, <1>5, TypeParts
  <1>7. CallsApart /\ RequestsAwaited /\ HistorySound
    BY DEF Init, CallsApart, RequestsAwaited, HistorySound
  <1>8. WriterAtEnd
    BY <1>1, <1>3 DEF Init, WriterAtEnd
  <1>9. AckedDurable /\ LogKeepsOrder
    BY DEF Init, AckedDurable, LogKeepsOrder
  <1>10. WrittenStarted
    BY <1>3 DEF WrittenStarted, At
  <1>11. QED BY <1>6, <1>7, <1>8, <1>9, <1>10 DEF IInv

\* Every step keeps it.
LEMMA StepInv == IInv /\ [Next]_vars => IInv'
  <1> SUFFICES ASSUME IInv, [Next]_vars PROVE IInv'
    OBVIOUS
  <1>1. /\ TypeOK /\ CallsApart /\ RequestsAwaited /\ CallInv /\ WriterAtEnd
        /\ WrittenStarted /\ AckedDurable /\ LogKeepsOrder
    BY DEF IInv, CallInv
  <1>2. TypeOK'
    <2>1. ProcessTypeOK' /\ DiskTypeOK'
      BY <1>1, ProcessTypeStep, DiskTypeStep
    <2>2. QED BY <2>1, TypeParts, PTL
  <1>3. CallInv'
    BY <1>1, CallStep
  <1>4. WriterAtEnd'
    BY <1>1, WriterStep
  <1>5. WrittenStarted'
    BY <1>1, StartedStep
  <1>6. AckedDurable'
    BY <1>1, <1>2, DurableStep
  <1>7. LogKeepsOrder'
    BY <1>1, <1>2, OrderStep
  <1>8. QED BY <1>2, <1>3, <1>4, <1>5, <1>6, <1>7 DEF IInv, CallInv

\* The invariant holds in every reachable state.
LEMMA Invariance == Spec => []IInv
  BY InitInv, StepInv, PTL DEF Spec

\* Every variable of the log keeps its type: in particular the writer's file
\* number is that of a file and no file is synced beyond its end.
THEOREM TypeCorrect == Spec => []TypeOK
  <1>1. IInv => TypeOK
    BY DEF IInv
  <1>2. QED BY <1>1, Invariance, PTL

\* An Append that returned nil, or whose nil answer is on its way, is on stable
\* storage with Fsync, and without it in a file unless the power failed: for any
\* number of callers, rotations, failed writes, crashes and power losses.
THEOREM AcknowledgedIsDurable == Spec => []AckedDurable
  <1>1. IInv => AckedDurable
    BY DEF IInv
  <1>2. QED BY <1>1, Invariance, PTL

\* An entry acknowledged before the Append of another was called lies before
\* it in the log, so that Replay delivers them in that order.
THEOREM LogIsOrdered == Spec => []LogKeepsOrder
  <1>1. IInv => LogKeepsOrder
    BY DEF IInv
  <1>2. QED BY <1>1, Invariance, PTL

\* A replay delivers what lies in a log without torn records.
LEMMA ReplayComplete ==
  ASSUME TypeOK, NoTornRecord, NEW e \in Entries, OnDisk(e)
  PROVE  e \in Replay
  <1>1. PICK f \in DOMAIN files : \E i \in 1..Len(files[f]) : files[f][i].body = e
    BY DEF OnDisk
  <1>2. PICK i \in 1..Len(files[f]) : files[f][i].body = e
    BY <1>1
  <1>3. i \in DOMAIN files[f] /\ \A j \in 1..i : j \in 1..Len(files[f])
    BY Places
  <1>4. \A g \in 1..(f - 1) : g \in DOMAIN files
    BY Places
  <1>5. Intact(f, i)
    BY <1>3, <1>4 DEF Intact, NoTornRecord
  <1>6. QED BY <1>2, <1>3, <1>5 DEF Replay

\* The Replay of a restart brings every acknowledged entry back, if no torn
\* record lies in the log and, without Fsync, the power never failed.
THEOREM RestartReplaysAcknowledged == Spec => CleanReplay
  <1>1. ASSUME IInv, [Next]_vars, ~up, up', NoTornRecord, fsync \/ ~powerLost
        PROVE  acked \subseteq replayed'
    <2>1. replayed' = Replay
      BY <1>1 DEF Next, Writer, Client, vars, AppendCheck, AppendSend, AppendRefused, AppendReturn,
           WriterTake, WriterRotate, WriterRotateFails, Take, WritePart, WriteData, WriteFails,
           WriterSync, WriterSyncFails, WriterDrain, WriterStop, Close, Crash, PowerLoss, Die, Restart
    <2>2. ASSUME NEW e \in acked PROVE e \in Replay
      <3>1. e \in Entries /\ TypeOK /\ Placed
        BY <1>1, PlaceOf DEF IInv, TypeOK
      <3>2. IF fsync THEN OnStableStorage(e) ELSE powerLost \/ OnDisk(e)
        BY <1>1 DEF IInv, AckedDurable
      <3>3. OnDisk(e)
        BY <1>1, <3>1, <3>2 DEF Placed
      <3>4. QED BY <1>1, <3>1, <3>3, ReplayComplete
    <2>3. QED BY <2>1, <2>2
  <1>2. IInv /\ [Next]_vars =>
          [(~up /\ up') /\ NoTornRecord /\ (fsync \/ ~powerLost) => acked \subseteq replayed']_vars
    BY <1>1
  <1>3. QED BY <1>2, Invariance, PTL DEF Spec, CleanReplay
=============================================================================
