------------------------ MODULE StorageServiceProofs ------------------------
(***************************************************************************)
(* Proofs about StorageService for every set of writers, readers, ids and  *)
(* tenants and every threshold: the type invariant, that acknowledged rows *)
(* are logged, that only rows put inside a flush window can vanish, and    *)
(* what GetEntity and RangeScan return while others write and flush.       *)
(***************************************************************************)
EXTENDS StorageService, WellFoundedInduction, TLAPS

-----------------------------------------------------------------------------
(* Rows of a memtable.                                                     *)

\* The empty memtable has no rows.
LEMMA EmptyData == Empty \in Data /\ Rows(Empty.data) = {}
  BY DEF Empty, Data, Rows

\* The rows of a memtable are rows.
LEMMA RowsType ==
  ASSUME NEW data \in [Ids -> Seq(Row)]
  PROVE  Rows(data) \subseteq Row
  BY DEF Rows

\* A row at some position of some entity's list is one of the rows, and back.
LEMMA RowsMember ==
  ASSUME NEW data \in [Ids -> Seq(Row)], NEW x
  PROVE  x \in Rows(data) <=> \E id \in Ids : \E i \in 1..Len(data[id]) : data[id][i] = x
  <1>1. \A id \in Ids : DOMAIN data[id] = 1..Len(data[id])
    OBVIOUS
  <1>2. QED BY <1>1 DEF Rows

\* Memtable.Put adds exactly the row it is given.
LEMMA PutRows ==
  ASSUME NEW d \in Data, NEW r \in Row
  PROVE  Put(d, r) \in Data /\ Rows(Put(d, r).data) = Rows(d.data) \cup {r}
  <1> DEFINE e == Put(d, r).data
  <1>1. d.data \in [Ids -> Seq(Row)] /\ d.size \in Nat /\ r.id \in Ids
    BY DEF Data, Row
  <1>2. e = [d.data EXCEPT ![r.id] = Append(@, r)]
    BY DEF Put
  <1>3. Put(d, r) \in Data /\ e \in [Ids -> Seq(Row)]
    BY <1>1 DEF Put, Data
  <1>4. ASSUME NEW x \in Rows(e) PROVE x \in Rows(d.data) \cup {r}
    <2>1. PICK id \in Ids : \E i \in 1..Len(e[id]) : e[id][i] = x
      BY <1>3, <1>4, RowsMember
    <2>2. CASE id # r.id
      BY <1>1, <1>2, <2>1, <2>2, RowsMember
    <2>3. CASE id = r.id
      <3>1. e[id] = Append(d.data[id], r) /\ Len(e[id]) = Len(d.data[id]) + 1
        BY <1>1, <1>2, <2>3
      <3>2. x = r \/ \E i \in 1..Len(d.data[id]) : d.data[id][i] = x
        BY <1>1, <2>1, <3>1
      <3>3. QED BY <1>1, <3>2, RowsMember
    <2>4. QED BY <2>2, <2>3
  <1>5. ASSUME NEW x \in Rows(d.data) PROVE x \in Rows(e)
    <2>1. PICK id \in Ids : \E i \in 1..Len(d.data[id]) : d.data[id][i] = x
      BY <1>1, <1>5, RowsMember
    <2>2. \E i \in 1..Len(e[id]) : e[id][i] = x
      BY <1>1, <1>2, <2>1
    <2>3. QED BY <1>3, <2>2, RowsMember
  <1>6. r \in Rows(e)
    <2>1. e[r.id] = Append(d.data[r.id], r)
      BY <1>1, <1>2
    <2>2. Len(e[r.id]) \in 1..Len(e[r.id]) /\ e[r.id][Len(e[r.id])] = r
      BY <1>1, <2>1
    <2>3. QED BY <1>1, <1>3, <2>2, RowsMember
  <1>7. QED BY <1>3, <1>4, <1>5, <1>6

\* Replacing an element of a sequence leaves a sequence of the same length.
LEMMA ReplaceInSeq ==
  ASSUME NEW S, NEW s \in Seq(S), NEW i, NEW x, i \in DOMAIN s => x \in S
  PROVE  [s EXCEPT ![i] = x] \in Seq(S) /\ Len([s EXCEPT ![i] = x]) = Len(s)
  <1>1. s \in [1..Len(s) -> S] /\ Len(s) \in Nat
    OBVIOUS
  <1>2. [s EXCEPT ![i] = x] \in [1..Len(s) -> S]
    BY <1>1
  <1>3. QED BY <1>1, <1>2

-----------------------------------------------------------------------------
(* Type correctness.                                                       *)

\* Steps of writers, crashes and restarts leave the memtable, the log and the
\* SSTables well-formed.
LEMMA WriterType ==
  ASSUME TypeOK, CallHasRow, NEW w \in Writers, Writer(w)
  PROVE  TypeOK' /\ CallHasRow'
  <1> USE DEF TypeOK, CallHasRow, At, Goto, Return, Flushing, Table, historyVars, diskVars
  <1>0. Empty \in Data /\ Empty.data \in [Ids -> Seq(Row)] /\ wal.data \in [Ids -> Seq(Row)]
        /\ mem.data \in [Ids -> Seq(Row)]
    BY EmptyData DEF Data
  <1>1. ASSUME NEW id \in Ids, NEW t \in Tenants, NEW ctx \in Tenants \cup {NoTenant},
               PutEntity(w, ctx, id, t)
        PROVE  TypeOK' /\ CallHasRow'
    <2>1. [id |-> id, tenant |-> t, ts |-> clock + 1] \in Row
      BY DEF Row
    <2>2. QED BY <1>1, <2>1 DEF PutEntity, NewRow
  <1>2. ASSUME NEW id \in Ids, NEW t \in Tenants, ReplicaSent(w, id, t)
        PROVE  TypeOK' /\ CallHasRow'
    <2>1. [id |-> id, tenant |-> t, ts |-> clock + 1] \in Row
      BY DEF Row
    <2>2. QED BY <1>2, <2>1 DEF ReplicaSent, NewRow
  <1>3. CASE WalAppend(w)
    BY <1>3, PutRows DEF WalAppend
  <1>4. CASE WalAppendFails(w)
    BY <1>4, PutRows DEF WalAppendFails
  <1>5. CASE MemtablePut(w)
    BY <1>5, PutRows DEF MemtablePut, MemPut
  <1>6. CASE PutReturns(w)
    BY <1>6 DEF PutReturns
  <1>7. CASE CallFlush(w)
    BY <1>7 DEF CallFlush
  <1>8. CASE FlushBegin(w)
    BY <1>0, <1>8 DEF FlushBegin
  <1>9. CASE FlushCreate(w)
    BY <1>9 DEF FlushCreate
  <1>10. CASE FlushClose(w)
    <2> DEFINE n == Len(sstables)
    <2>0. ASSUME NEW x \in Table PROVE [x EXCEPT !.complete = TRUE] \in Table
      OBVIOUS
    <2>1. n \in DOMAIN sstables => [sstables[n] EXCEPT !.complete = TRUE] \in Table
      <3> HIDE DEF Table
      <3>1. n \in DOMAIN sstables => sstables[n] \in Table
        OBVIOUS
      <3>2. QED BY <2>0, <3>1
    <2>2. sstables' \in Seq(Table)
      <3> HIDE DEF Table
      <3>1. sstables' = [sstables EXCEPT ![n] = [sstables[n] EXCEPT !.complete = TRUE]]
        BY <1>10 DEF FlushClose
      <3>2. QED BY <2>1, <3>1, ReplaceInSeq
    <2>3. QED BY <1>10, <2>2 DEF FlushClose
  <1>11. CASE FlushFails(w)
    BY <1>11 DEF FlushFails
  <1>12. CASE FlushReset(w)
    BY <1>0, <1>12 DEF FlushReset
  <1>13. CASE ReplicaWrite(w)
    BY <1>13, PutRows DEF ReplicaWrite, MemPut
  <1>14. QED
    BY <1>1, <1>2, <1>3, <1>4, <1>5, <1>6, <1>7, <1>8, <1>9, <1>10, <1>11, <1>12, <1>13
    DEF Writer, Flush

\* A non-empty set of naturals has a least element.
LEMMA LeastNat ==
  ASSUME NEW I \in SUBSET Nat, I # {}
  PROVE  \E i \in I : \A j \in I : i <= j
  <1>1. PICK i \in I : \A j \in I : ~(<<j, i>> \in OpToRel(<, Nat))
    BY NatLessThanWellFounded, WFMin, Zenon
  <1>2. \A j \in I : ~(j < i)
    BY <1>1 DEF OpToRel
  <1>3. QED BY <1>2

\* A non-empty set of positions of a sequence has a greatest one.
LEMMA GreatestPosition ==
  ASSUME NEW n \in Nat, NEW I \in SUBSET (1..n), I # {}
  PROVE  \E i \in I : \A j \in I : j <= i
  <1> DEFINE D == {d \in Nat : n - d \in I}
  <1>1. \A i \in I : n - i \in D
    BY DEF D
  <1>2. PICK d \in D : \A e \in D : d <= e
    BY <1>1, LeastNat
  <1>3. n - d \in I /\ \A j \in I : j <= n - d
    BY <1>1, <1>2
  <1>4. QED BY <1>3

\* The rows that the readers look at are rows of the memtable or of a file.
LEMMA LookType ==
  ASSUME TypeOK, NEW id \in Ids, NEW t
  PROVE  /\ LatestFromMemtable(id, t) \in Row \cup {None}
         /\ LatestFromSSTables(id, t) \in Row \cup {None}
         /\ NewestInSSTables(id, t) \in Row \cup {None}
  <1> DEFINE WithId == {i \in DOMAIN sstables : sstables[i].data[id] # << >>}
             ts(i) == ExtractRowTimestamp(LastRow(sstables[i].data[id]))
             best == {i \in Candidates(id, t) :
                        /\ ts(i) >= 0
                        /\ \A j \in Candidates(id, t) : ts(j) <= ts(i)}
             hits == {i \in DOMAIN sstables :
                        /\ sstables[i].complete
                        /\ sstables[i].data[id] # << >>
                        /\ TenantMatches(t, LastRow(sstables[i].data[id]))}
             oldest == CHOOSE i \in best : \A j \in best : i <= j
             newest == CHOOSE i \in hits : \A j \in hits : j <= i
  <1>1. ASSUME NEW s \in Seq(Row), s # << >> PROVE LastRow(s) \in Row
    BY <1>1 DEF LastRow
  <1>2. mem.data[id] \in Seq(Row)
    BY DEF TypeOK, Data
  <1>3. /\ \A i \in DOMAIN sstables : sstables[i].data[id] \in Seq(Row)
        /\ Len(sstables) \in Nat /\ DOMAIN sstables = 1..Len(sstables)
    <2>1. /\ \A i \in DOMAIN sstables : sstables[i] \in Table
          /\ Len(sstables) \in Nat /\ DOMAIN sstables = 1..Len(sstables)
      BY DEF TypeOK
    <2>2. QED BY <2>1 DEF Table
  <1>4. LatestFromMemtable(id, t) \in Row \cup {None}
    BY <1>1, <1>2 DEF LatestFromMemtable
  <1>5. \A i \in WithId : LastRow(sstables[i].data[id]) \in Row
    BY <1>1, <1>3
  <1>6. best \in SUBSET WithId /\ hits \in SUBSET WithId /\ WithId \subseteq 1..Len(sstables)
    BY <1>3 DEF Candidates
  <1>7. best # {} => LastRow(sstables[oldest].data[id]) \in Row
    <2> HIDE DEF best
    <2>1. best \in SUBSET Nat
      BY <1>3, <1>6
    <2>2. best # {} => \E i \in best : \A j \in best : i <= j
      BY <2>1, LeastNat
    <2>3. best # {} => oldest \in best
      BY <2>2
    <2>4. QED BY <1>5, <1>6, <2>3
  <1>8. hits # {} => LastRow(sstables[newest].data[id]) \in Row
    <2> HIDE DEF hits
    <2>1. hits # {} => \E i \in hits : \A j \in hits : j <= i
      BY <1>3, <1>6, GreatestPosition
    <2>2. hits # {} => newest \in hits
      BY <2>1
    <2>3. QED BY <1>5, <1>6, <2>2
  <1>9. LatestFromSSTables(id, t) \in Row \cup {None}
    BY <1>7 DEF LatestFromSSTables
  <1>10. NewestInSSTables(id, t) \in Row \cup {None}
    BY <1>8 DEF NewestInSSTables
  <1>11. QED BY <1>4, <1>9, <1>10

\* Steps of readers change nothing but look, and leave it well-formed.
LEMMA ReaderType ==
  ASSUME TypeOK, CallHasRow, NEW r \in Readers, Reader(r)
  PROVE  /\ TypeOK' /\ CallHasRow'
         /\ UNCHANGED <<diskVars, up, mem, writerVars, historyVars>>
  <1> DEFINE Call == {Idle} \cup GetCall \cup GotCall \cup ScanCall \cup ScanDone
  <1>1. ASSUME NEW c \in Call, look' = [look EXCEPT ![r] = c],
               UNCHANGED <<diskVars, up, mem, writerVars, historyVars>>
        PROVE  TypeOK' /\ CallHasRow'
    <2>1. look' \in [Readers -> Call]
      <3>1. look \in [Readers -> Call]
        BY DEF TypeOK
      <3>2. QED BY <1>1, <3>1
    <2>2. QED BY <1>1, <2>1 DEF TypeOK, CallHasRow, diskVars, writerVars, historyVars
  <1>2. look[r] \in Call
    BY DEF TypeOK
  <1>3. ASSUME NEW id \in Ids, NEW t \in Tenants, GetMem(r, id, t)
        PROVE  TypeOK' /\ CallHasRow' /\ UNCHANGED <<diskVars, up, mem, writerVars, historyVars>>
    <2> DEFINE found == LatestFromMemtable(id, t) # None \/ LatestFromSSTables(id, t) # None
               c == [op |-> "get", id |-> id, tenant |-> t,
                     mem |-> LatestFromMemtable(id, t), found |-> found]
    <2>1. LatestFromMemtable(id, t) \in Row \cup {None}
      BY LookType
    <2>2. c \in GetCall
      BY <2>1 DEF GetCall
    <2>3. QED BY <1>1, <1>3, <2>2 DEF GetMem
  <1>4. CASE GetSST(r)
    <2> DEFINE l == look[r]
               s == LatestFromSSTables(l.id, l.tenant)
               c == [op |-> "got", id |-> l.id, tenant |-> l.tenant, found |-> l.found,
                     result |-> Newer(l.mem, s)]
    <2>1. l \in GetCall
      BY <1>2, <1>4 DEF GetSST, Idle, GetCall, GotCall, ScanCall, ScanDone
    <2>2. l.id \in Ids /\ l.tenant \in Tenants /\ l.found \in BOOLEAN /\ l.mem \in Row \cup {None}
      BY <2>1 DEF GetCall
    <2>3. s \in Row \cup {None}
      BY <2>2, LookType
    <2>4. Newer(l.mem, s) \in Row \cup {None}
      BY <2>2, <2>3 DEF Newer
    <2>5. c \in GotCall
      BY <2>2, <2>4 DEF GotCall
    <2>6. look' = [look EXCEPT ![r] = c]
      BY <1>4 DEF GetSST
    <2>7. QED BY <1>1, <1>4, <2>5, <2>6 DEF GetSST
  <1>5. ASSUME NEW range \in ScanRanges, NEW t \in Tenants \cup {NoTenant}, ScanKeys(r, range, t)
        PROVE  TypeOK' /\ CallHasRow' /\ UNCHANGED <<diskVars, up, mem, writerVars, historyVars>>
    <2> DEFINE c == [op |-> "scan", range |-> range, tenant |-> t,
                     todo |-> {id \in Ids : mem.data[id] # << >> /\ InRange(id, range)},
                     result |-> [id \in Ids |-> None],
                     found |-> {id \in Ids : InRange(id, range) /\ HasRow(id)}]
    <2>1. c \in ScanCall
      BY DEF ScanCall
    <2>2. look' = [look EXCEPT ![r] = c]
      BY <1>5 DEF ScanKeys
    <2>3. QED BY <1>1, <1>5, <2>1, <2>2 DEF ScanKeys
  <1>6. ASSUME NEW id \in Ids, ScanGet(r, id)
        PROVE  TypeOK' /\ CallHasRow' /\ UNCHANGED <<diskVars, up, mem, writerVars, historyVars>>
    <2> DEFINE l == look[r]
               rows == mem.data[id]
               hit == rows # << >> /\ TenantMatches(l.tenant, LastRow(rows))
               x == IF hit THEN LastRow(rows) ELSE None
               c == [l EXCEPT !.todo = @ \ {id}, !.result[id] = x]
    <2>1. l \in ScanCall
      BY <1>2, <1>6 DEF ScanGet, Idle, GetCall, GotCall, ScanCall, ScanDone
    <2>2. rows \in Seq(Row)
      BY DEF TypeOK, Data
    <2>3. x \in Row \cup {None}
      BY <2>2 DEF LastRow
    <2>4. c \in ScanCall
      <3> HIDE DEF x
      <3>1. QED BY <2>1, <2>3 DEF ScanCall
    <2>5. look' = [look EXCEPT ![r] = c]
      BY <1>6 DEF ScanGet
    <2>6. QED BY <1>1, <1>6, <2>4, <2>5 DEF ScanGet
  <1>7. CASE ScanSST(r)
    <2> DEFINE l == look[r]
               result == [id \in Ids |->
                            IF l.result[id] # None \/ ~InRange(id, l.range) THEN l.result[id]
                            ELSE NewestInSSTables(id, l.tenant)]
               c == [op |-> "scanned", range |-> l.range, tenant |-> l.tenant,
                     found |-> l.found, result |-> result]
    <2>1. l \in ScanCall
      BY <1>2, <1>7 DEF ScanSST, Idle, GetCall, GotCall, ScanCall, ScanDone
    <2>2. /\ l.range \in ScanRanges /\ l.tenant \in Tenants \cup {NoTenant}
          /\ l.found \in SUBSET Ids /\ l.result \in [Ids -> Row \cup {None}]
      BY <2>1 DEF ScanCall
    <2>3. \A id \in Ids : NewestInSSTables(id, l.tenant) \in Row \cup {None}
      BY LookType
    <2>4. result \in [Ids -> Row \cup {None}]
      BY <2>2, <2>3
    <2>5. c \in ScanDone
      <3> HIDE DEF result
      <3>1. QED BY <2>2, <2>4 DEF ScanDone
    <2>6. look' = [look EXCEPT ![r] = c]
      BY <1>7 DEF ScanSST
    <2>7. QED BY <1>1, <1>7, <2>5, <2>6 DEF ScanSST
  <1>8. CASE ReadReturns(r)
    BY <1>1, <1>8 DEF ReadReturns
  <1>9. QED
    BY <1>3, <1>4, <1>5, <1>6, <1>7, <1>8 DEF Reader

\* A crash may spoil files; it neither adds nor removes any, nor changes rows.
LEMMA CrashTables ==
  ASSUME TypeOK, Crash
  PROVE  /\ sstables' \in Seq(Table)
         /\ DOMAIN sstables' = DOMAIN sstables
  <1>1. PICK spoilt \in SUBSET DOMAIN sstables :
           sstables' = [i \in DOMAIN sstables |->
                          [sstables[i] EXCEPT !.complete = @ /\ i \notin spoilt]]
    BY DEF Crash
  <1>2. sstables \in [1..Len(sstables) -> Table] /\ Len(sstables) \in Nat
    BY DEF TypeOK
  <1>3. ASSUME NEW x \in Table, NEW b \in BOOLEAN
        PROVE  [x EXCEPT !.complete = x.complete /\ b] \in Table
    BY DEF Table
  <1>4. \A i \in DOMAIN sstables :
           [sstables[i] EXCEPT !.complete = @ /\ i \notin spoilt] \in Table
    BY <1>2, <1>3
  <1>5. sstables' \in [1..Len(sstables) -> Table]
    BY <1>1, <1>2, <1>4
  <1>6. QED BY <1>2, <1>5

\* Every step preserves the type invariant.
LEMMA TypeStep ==
  ASSUME TypeOK, CallHasRow, [Next]_vars
  PROVE  TypeOK' /\ CallHasRow'
  <1>1. ASSUME NEW w \in Writers, Writer(w) PROVE TypeOK' /\ CallHasRow'
    BY <1>1, WriterType
  <1>2. ASSUME NEW r \in Readers, Reader(r) PROVE TypeOK' /\ CallHasRow'
    BY <1>2, ReaderType
  <1>3. CASE Crash
    <2>1. Empty \in Data /\ Empty.data \in [Ids -> Seq(Row)]
      BY EmptyData DEF Data
    <2>2. sstables' \in Seq(Table)
      BY <1>3, CrashTables
    <2>3. /\ UNCHANGED <<wal, clock, acked>> /\ mem' = Empty /\ up' = FALSE
          /\ pc' = [w \in Writers |-> "idle"] /\ row' = [w \in Writers |-> None]
          /\ snapshot' = [w \in Writers |-> Empty.data] /\ look' = [r \in Readers |-> Idle]
          /\ replicated' = {} /\ late' = {} /\ flushMu' = None /\ crashes' = crashes + 1
      BY <1>3 DEF Crash
    <2>4. wal' \in Data /\ mem' \in Data /\ snapshot' \in [Writers -> [Ids -> Seq(Row)]]
      BY <2>1, <2>3 DEF TypeOK
    <2>5. /\ pc' \in [Writers -> {"idle", "append", "put", "check", "lock", "replica"} \cup Flushing]
          /\ row' \in [Writers -> Row \cup {None}]
          /\ look' \in [Readers -> {Idle} \cup GetCall \cup GotCall \cup ScanCall \cup ScanDone]
      BY <2>3
    <2>6. CallHasRow'
      BY <2>3 DEF CallHasRow
    <2>7. /\ flushMu' \in Writers \cup {None} /\ acked' \subseteq Row
          /\ replicated' \subseteq Row /\ late' \subseteq Row /\ clock' \in Nat /\ crashes' \in Nat
      BY <2>3 DEF TypeOK
    <2>8. up' \in BOOLEAN
      BY <2>3, Zenon
    <2>9. TypeOK'
      BY <2>2, <2>4, <2>5, <2>7, <2>8 DEF TypeOK
    <2>10. QED BY <2>6, <2>9
  <1>4. CASE Restart
    BY <1>4 DEF Restart, TypeOK, CallHasRow, diskVars, writerVars, historyVars
  <1>5. CASE UNCHANGED vars
    BY <1>5 DEF vars, TypeOK, CallHasRow, diskVars, writerVars, historyVars
  <1>6. QED BY <1>1, <1>2, <1>3, <1>4, <1>5 DEF Next

\* The initial state is well-formed.
LEMMA TypeInit == Init => TypeOK /\ CallHasRow
  <1>1. Empty \in Data /\ Empty.data \in [Ids -> Seq(Row)]
    BY EmptyData DEF Data
  <1>2. QED BY <1>1 DEF Init, TypeOK, CallHasRow

\* In every reachable state memtable, log, SSTables and calls in flight are
\* well-formed: whatever PutEntity, ReplicaWrite, FlushMemtable, GetEntity,
\* RangeScan, crashes and restarts do, in any interleaving.
THEOREM TypeCorrect == Spec => []TypeOK
  <1>1. TypeOK /\ CallHasRow /\ [Next]_vars => (TypeOK /\ CallHasRow)'
    BY TypeStep
  <1>2. QED BY TypeInit, <1>1, PTL DEF Spec

-----------------------------------------------------------------------------
(* Acknowledged rows are logged.                                           *)

\* Logging comes before acknowledging: AckedInWal needs CallLogged, that the
\* row of a call past wal.Append is in the log.
LEMMA LoggedStep ==
  ASSUME TypeOK, CallHasRow, AckedInWal, CallLogged, [Next]_vars
  PROVE  AckedInWal' /\ CallLogged'
  <1> USE DEF AckedInWal, CallLogged, AfterPut, Flushing, At, Goto, Return,
              diskVars, writerVars, historyVars
  <1>0. /\ pc \in [Writers -> {"idle", "append", "put", "check", "lock", "replica"} \cup Flushing]
        /\ row \in [Writers -> Row \cup {None}]
    BY DEF TypeOK
  <1>1. ASSUME NEW w \in Writers, Writer(w) PROVE AckedInWal' /\ CallLogged'
    <2>1. ASSUME NEW id \in Ids, NEW t \in Tenants, NEW ctx \in Tenants \cup {NoTenant},
                 PutEntity(w, ctx, id, t)
          PROVE  AckedInWal' /\ CallLogged'
      BY <1>0, <2>1 DEF PutEntity, NewRow
    <2>2. ASSUME NEW id \in Ids, NEW t \in Tenants, ReplicaSent(w, id, t)
          PROVE  AckedInWal' /\ CallLogged'
      BY <1>0, <2>2 DEF ReplicaSent, NewRow
    <2>3. CASE WalAppend(w)
      <3>1. row[w] \in Row /\ wal \in Data
        BY <2>3 DEF WalAppend, CallHasRow, TypeOK
      <3>2. Rows(wal'.data) = Rows(wal.data) \cup {row[w]}
        BY <2>3, <3>1, PutRows DEF WalAppend
      <3>3. QED BY <1>0, <2>3, <3>2 DEF WalAppend
    <2>4. CASE WalAppendFails(w)
      <3>1. row[w] \in Row /\ wal \in Data
        BY <2>4 DEF WalAppendFails, CallHasRow, TypeOK
      <3>2. Rows(wal.data) \subseteq Rows(wal'.data)
        BY <2>4, <3>1, PutRows DEF WalAppendFails
      <3>3. QED BY <1>0, <2>4, <3>2 DEF WalAppendFails
    <2>5. CASE MemtablePut(w)
      BY <1>0, <2>5 DEF MemtablePut, MemPut
    <2>6. CASE PutReturns(w)
      BY <1>0, <2>6 DEF PutReturns
    <2>7. CASE CallFlush(w)
      BY <1>0, <2>7 DEF CallFlush
    <2>8. CASE FlushBegin(w)
      BY <1>0, <2>8 DEF FlushBegin
    <2>9. CASE FlushCreate(w)
      BY <1>0, <2>9 DEF FlushCreate
    <2>10. CASE FlushClose(w)
      BY <1>0, <2>10 DEF FlushClose
    <2>11. CASE FlushFails(w)
      BY <1>0, <2>11 DEF FlushFails
    <2>12. CASE FlushReset(w)
      BY <1>0, <2>12 DEF FlushReset
    <2>13. CASE ReplicaWrite(w)
      BY <1>0, <2>13 DEF ReplicaWrite, MemPut
    <2>14. QED
      BY <1>1, <2>1, <2>2, <2>3, <2>4, <2>5, <2>6, <2>7, <2>8, <2>9, <2>10, <2>11, <2>12, <2>13
      DEF Writer, Flush
  <1>2. ASSUME NEW r \in Readers, Reader(r) PROVE AckedInWal' /\ CallLogged'
    <2>1. UNCHANGED <<diskVars, up, mem, writerVars, historyVars>>
      BY <1>2, ReaderType
    <2>2. QED BY <2>1
  <1>3. CASE Crash
    BY <1>3 DEF Crash
  <1>4. CASE Restart
    BY <1>4 DEF Restart
  <1>5. CASE UNCHANGED vars
    BY <1>5 DEF vars
  <1>6. QED BY <1>1, <1>2, <1>3, <1>4, <1>5 DEF Next

\* A row whose PutEntity returned nil is in the log from then on, so a restart
\* replays it: flush races, failed flushes and crashes do not change that.
THEOREM AcknowledgedIsLogged == Spec => []AckedInWal
  <1>1. Init => AckedInWal /\ CallLogged
    BY DEF Init, AckedInWal, CallLogged, AfterPut, Flushing
  <1>2. TypeOK /\ CallHasRow /\ [Next]_vars => (TypeOK /\ CallHasRow)'
    BY TypeStep
  <1>3. TypeOK /\ CallHasRow /\ AckedInWal /\ CallLogged /\ [Next]_vars
          => (AckedInWal /\ CallLogged)'
    BY LoggedStep
  <1>4. QED BY TypeInit, <1>1, <1>2, <1>3, PTL DEF Spec

-----------------------------------------------------------------------------
(* Accepted rows are stored.                                               *)

\* The mutex: one flush at a time, and none in a process that is down.
LEMMA LockStep ==
  ASSUME TypeOK, CallHasRow, FlushLocked, DownIsQuiet, [Next]_vars
  PROVE  FlushLocked' /\ DownIsQuiet'
  <1> USE NoneIsNoRow DEF FlushLocked, DownIsQuiet, Flushing, At, Goto, Return,
                          diskVars, writerVars, historyVars
  <1>0. /\ pc \in [Writers -> {"idle", "append", "put", "check", "lock", "replica"} \cup Flushing]
        /\ flushMu \in Writers \cup {None}
    BY DEF TypeOK
  <1>1. ASSUME NEW w \in Writers, Writer(w) PROVE FlushLocked' /\ DownIsQuiet'
    <2>1. ASSUME NEW id \in Ids, NEW t \in Tenants, NEW ctx \in Tenants \cup {NoTenant},
                 PutEntity(w, ctx, id, t)
          PROVE  FlushLocked' /\ DownIsQuiet'
      BY <1>0, <2>1 DEF PutEntity, NewRow
    <2>2. ASSUME NEW id \in Ids, NEW t \in Tenants, ReplicaSent(w, id, t)
          PROVE  FlushLocked' /\ DownIsQuiet'
      BY <1>0, <2>2 DEF ReplicaSent, NewRow
    <2>3. CASE WalAppend(w)
      BY <1>0, <2>3 DEF WalAppend
    <2>4. CASE WalAppendFails(w)
      BY <1>0, <2>4 DEF WalAppendFails
    <2>5. CASE MemtablePut(w)
      BY <1>0, <2>5 DEF MemtablePut, MemPut
    <2>6. CASE PutReturns(w)
      BY <1>0, <2>6 DEF PutReturns
    <2>7. CASE CallFlush(w)
      BY <1>0, <2>7 DEF CallFlush
    <2>8. CASE FlushBegin(w)
      BY <1>0, <2>8 DEF FlushBegin
    <2>9. CASE FlushCreate(w)
      BY <1>0, <2>9 DEF FlushCreate
    <2>10. CASE FlushClose(w)
      BY <1>0, <2>10 DEF FlushClose
    <2>11. CASE FlushFails(w)
      BY <1>0, <2>11 DEF FlushFails
    <2>12. CASE FlushReset(w)
      BY <1>0, <2>12 DEF FlushReset
    <2>13. CASE ReplicaWrite(w)
      BY <1>0, <2>13 DEF ReplicaWrite, MemPut
    <2>14. QED
      BY <1>1, <2>1, <2>2, <2>3, <2>4, <2>5, <2>6, <2>7, <2>8, <2>9, <2>10, <2>11, <2>12, <2>13
      DEF Writer, Flush
  <1>2. ASSUME NEW r \in Readers, Reader(r) PROVE FlushLocked' /\ DownIsQuiet'
    <2>1. UNCHANGED <<diskVars, up, mem, writerVars, historyVars>>
      BY <1>2, ReaderType
    <2>2. QED BY <2>1
  <1>3. CASE Crash
    BY <1>3 DEF Crash
  <1>4. CASE Restart
    BY <1>4 DEF Restart
  <1>5. CASE UNCHANGED vars
    BY <1>5 DEF vars
  <1>6. QED BY <1>1, <1>2, <1>3, <1>4, <1>5 DEF Next

StoredInv == AcceptedStored /\ CallStored /\ WindowCovered /\ SnapshotWritten

\* The files only grow: a complete file stays, with its rows.
FilesKept ==
  \A i \in DOMAIN sstables : sstables[i].complete =>
      i \in DOMAIN sstables' /\ sstables'[i].complete /\ sstables'[i].data = sstables[i].data

\* What is stored stays stored while memtable and files only grow.
LEMMA StoredKept ==
  ASSUME Rows(mem.data) \subseteq Rows(mem'.data), FilesKept, NEW x, Stored(x)
  PROVE  Stored(x)'
  BY DEF Stored, FilesKept

\* A step that touches neither memtable, nor files, nor snapshots, and moves a
\* writer that does not flush, or ends a flush.
LEMMA QuietStep ==
  ASSUME TypeOK, StoredInv, UNCHANGED <<mem, sstables, snapshot, late, up>>,
         NEW w \in Writers,
         \A v \in Writers \ {w} : pc'[v] = pc[v] /\ row'[v] = row[v],
         pc'[w] \notin Flushing,
         pc'[w] \in AfterPut => pc[w] \in AfterPut /\ row'[w] = row[w],
         \A x \in acked' \cup replicated' :
             x \in acked \cup replicated \/ (pc[w] \in AfterPut /\ x = row[w])
  PROVE  StoredInv'
  <1>1. \A x : Stored(x) => Stored(x)'
    BY DEF Stored
  <1>2. AcceptedStored'
    BY <1>1 DEF StoredInv, AcceptedStored, CallStored
  <1>3. CallStored'
    BY <1>1 DEF StoredInv, CallStored
  <1>4. WindowCovered' /\ SnapshotWritten'
    BY DEF StoredInv, WindowCovered, SnapshotWritten, Flushing
  <1>5. QED BY <1>2, <1>3, <1>4 DEF StoredInv

\* A row put into the memtable is stored, and late if a flush is under way.
LEMMA MemPutStep ==
  ASSUME TypeOK, StoredInv, NEW w \in Writers, row[w] \in Row, MemPut(w), pc[w] \notin Flushing,
         UNCHANGED <<sstables, snapshot, up>>,
         \A v \in Writers \ {w} : pc'[v] = pc[v] /\ row'[v] = row[v],
         pc'[w] \notin Flushing,
         pc'[w] \in AfterPut => row'[w] = row[w],
         \A x \in acked' \cup replicated' : x \in acked \cup replicated \/ x = row[w]
  PROVE  StoredInv'
  <1>1. Rows(mem'.data) = Rows(mem.data) \cup {row[w]}
    BY PutRows DEF MemPut, TypeOK
  <1>2. late \subseteq late' /\ (FlushWindow => row[w] \in late')
    BY DEF MemPut
  <1>3. \A x : Stored(x) => Stored(x)'
    BY <1>1 DEF Stored
  <1>4. \A x : x \in Rows(mem'.data) => Stored(x)'
    BY DEF Stored
  <1>5. AcceptedStored'
    BY <1>1, <1>2, <1>3, <1>4 DEF StoredInv, AcceptedStored
  <1>6. CallStored'
    <2>1. ASSUME NEW v \in Writers, pc'[v] \in AfterPut, NEW x, x = row'[v]
          PROVE  x \in late' \/ Stored(x)'
      <3>1. CASE v = w
        BY <1>1, <1>4, <2>1, <3>1
      <3>2. CASE v # w
        BY <1>2, <1>3, <2>1, <3>2 DEF StoredInv, CallStored
      <3>3. QED BY <3>1, <3>2
    <2>2. QED BY <2>1 DEF CallStored, AfterPut, Flushing, Stored
  <1>7. WindowCovered'
    BY <1>1, <1>2 DEF StoredInv, WindowCovered, FlushWindow, Flushing
  <1>8. SnapshotWritten'
    BY DEF StoredInv, SnapshotWritten, Flushing
  <1>9. QED BY <1>5, <1>6, <1>7, <1>8 DEF StoredInv

\* The beginning of a flush: the snapshot is the memtable.
LEMMA FlushBeginStep ==
  ASSUME TypeOK, FlushLocked, StoredInv, NEW w \in Writers, FlushBegin(w)
  PROVE  StoredInv'
  <1> USE DEF Flushing, AfterPut
  <1>0. /\ pc \in [Writers -> {"idle", "append", "put", "check", "lock", "replica"} \cup Flushing]
        /\ snapshot \in [Writers -> [Ids -> Seq(Row)]]
    BY DEF TypeOK
  <1>1. /\ UNCHANGED <<mem, sstables, late, up, row, acked, replicated>>
        /\ \A v \in Writers : pc[v] \notin Flushing
        /\ snapshot'[w] = mem.data
        /\ pc[w] = "lock"
        /\ pc'[w] \in {"create", "reset"}
        /\ pc'[w] = "reset" => mem.data = Empty.data
        /\ \A v \in Writers \ {w} : pc'[v] = pc[v]
    BY <1>0, NoneIsNoRow DEF FlushBegin, At, Goto, FlushLocked, diskVars, historyVars
  <1>2. \A x : Stored(x) => Stored(x)'
    BY <1>1 DEF Stored
  <1>3. AcceptedStored' /\ CallStored'
    BY <1>1, <1>2 DEF StoredInv, AcceptedStored, CallStored
  <1>4. WindowCovered'
    BY <1>1 DEF WindowCovered
  <1>5. SnapshotWritten'
    BY <1>1 DEF SnapshotWritten
  <1>6. QED BY <1>3, <1>4, <1>5 DEF StoredInv

\* The file that a flush creates is the newest and holds its snapshot.
LEMMA FlushCreateStep ==
  ASSUME TypeOK, FlushLocked, StoredInv, NEW w \in Writers, FlushCreate(w)
  PROVE  StoredInv'
  <1> USE DEF Flushing, AfterPut
  <1>0. /\ pc \in [Writers -> {"idle", "append", "put", "check", "lock", "replica"} \cup Flushing]
        /\ sstables \in Seq(Table)
    BY DEF TypeOK
  <1>1. /\ UNCHANGED <<mem, snapshot, late, up, row, acked, replicated>>
        /\ pc[w] = "create" /\ pc'[w] = "write"
        /\ \A v \in Writers \ {w} : pc'[v] = pc[v] /\ pc[v] \notin Flushing
    BY <1>0 DEF FlushCreate, At, Goto, FlushLocked, historyVars
  <1> DEFINE file == [complete |-> FALSE, data |-> snapshot[w]]
  <1>2. sstables' = Append(sstables, file)
    BY DEF FlushCreate
  <1>3. /\ Len(sstables') = Len(sstables) + 1
        /\ sstables'[Len(sstables')] = file
        /\ \A i \in DOMAIN sstables : i \in DOMAIN sstables' /\ sstables'[i] = sstables[i]
    <2> HIDE DEF file
    <2>1. QED BY <1>0, <1>2
  <1>4. FilesKept /\ sstables' # << >>
    BY <1>0, <1>3 DEF FilesKept
  <1>5. \A x : Stored(x) => Stored(x)'
    BY <1>1, <1>4, StoredKept
  <1>6. AcceptedStored' /\ CallStored'
    BY <1>1, <1>5 DEF StoredInv, AcceptedStored, CallStored
  <1>7. WindowCovered'
    BY <1>1 DEF StoredInv, WindowCovered
  <1>8. SnapshotWritten'
    BY <1>1, <1>3, <1>4 DEF SnapshotWritten
  <1>9. QED BY <1>6, <1>7, <1>8 DEF StoredInv

\* Closing the file makes the snapshot readable.
LEMMA FlushCloseStep ==
  ASSUME TypeOK, FlushLocked, StoredInv, NEW w \in Writers, FlushClose(w)
  PROVE  StoredInv'
  <1> USE DEF Flushing, AfterPut
  <1> DEFINE n == Len(sstables)
  <1>0. /\ pc \in [Writers -> {"idle", "append", "put", "check", "lock", "replica"} \cup Flushing]
        /\ sstables \in Seq(Table)
        /\ \A i \in DOMAIN sstables : sstables[i] \in Table
    BY DEF TypeOK
  <1>1. /\ UNCHANGED <<mem, snapshot, late, up, row, acked, replicated>>
        /\ pc[w] = "write" /\ pc'[w] = "reset"
        /\ \A v \in Writers \ {w} : pc'[v] = pc[v] /\ pc[v] \notin Flushing
    BY <1>0 DEF FlushClose, At, Goto, FlushLocked, historyVars
  <1>2. n \in DOMAIN sstables /\ sstables[n].data = snapshot[w]
    BY <1>0, <1>1 DEF StoredInv, SnapshotWritten
  <1>3. sstables' = [sstables EXCEPT ![n] = [sstables[n] EXCEPT !.complete = TRUE]]
    BY DEF FlushClose
  <1>4. [sstables[n] EXCEPT !.complete = TRUE].complete
        /\ [sstables[n] EXCEPT !.complete = TRUE].data = sstables[n].data
    BY <1>0, <1>2 DEF Table
  <1>5. /\ DOMAIN sstables' = DOMAIN sstables
        /\ sstables'[n].complete /\ sstables'[n].data = sstables[n].data
        /\ \A i \in DOMAIN sstables \ {n} : sstables'[i] = sstables[i]
    BY <1>2, <1>3, <1>4
  <1>6. FilesKept
    BY <1>5 DEF FilesKept
  <1>7. \A x : Stored(x) => Stored(x)'
    BY <1>1, <1>6, StoredKept
  <1>8. AcceptedStored' /\ CallStored'
    BY <1>1, <1>7 DEF StoredInv, AcceptedStored, CallStored
  <1>9. WindowCovered'
    BY <1>1 DEF StoredInv, WindowCovered
  <1>10. SnapshotWritten'
    BY <1>1, <1>2, <1>5 DEF SnapshotWritten
  <1>11. QED BY <1>8, <1>9, <1>10 DEF StoredInv

\* The reset drops only rows that the snapshot has, or late ones.
LEMMA FlushResetStep ==
  ASSUME TypeOK, FlushLocked, StoredInv, NEW w \in Writers, FlushReset(w)
  PROVE  StoredInv'
  <1> USE DEF Flushing, AfterPut
  <1>0. /\ pc \in [Writers -> {"idle", "append", "put", "check", "lock", "replica"} \cup Flushing]
        /\ row \in [Writers -> Row \cup {None}]
    BY DEF TypeOK
  <1>1. /\ UNCHANGED <<sstables, snapshot, late, up, replicated>>
        /\ pc[w] = "reset" /\ pc'[w] = "idle"
        /\ \A v \in Writers \ {w} : pc'[v] = pc[v] /\ row'[v] = row[v] /\ pc[v] \notin Flushing
        /\ acked' = acked \cup {row[w]}
    BY <1>0 DEF FlushReset, At, Return, FlushLocked, diskVars
  <1>2. \A x : Stored(x) => x \in late' \/ Stored(x)'
    <2> SUFFICES ASSUME NEW x, Stored(x), x \notin late PROVE Stored(x)'
      BY <1>1
    <2>1. CASE x \in Rows(mem.data)
      <3>1. x \in Rows(snapshot[w])
        BY <1>1, <2>1 DEF StoredInv, WindowCovered
      <3>2. snapshot[w] # Empty.data
        BY <3>1, EmptyData
      <3>3. PICK i \in DOMAIN sstables : sstables[i].complete /\ sstables[i].data = snapshot[w]
        BY <1>1, <3>2 DEF StoredInv, SnapshotWritten
      <3>4. QED BY <1>1, <3>1, <3>3 DEF Stored
    <2>2. CASE x \notin Rows(mem.data)
      BY <1>1, <2>2 DEF Stored
    <2>3. QED BY <2>1, <2>2
  <1>3. AcceptedStored'
    BY <1>1, <1>2 DEF StoredInv, AcceptedStored, CallStored
  <1>4. CallStored'
    BY <1>1, <1>2 DEF StoredInv, CallStored
  <1>5. WindowCovered' /\ SnapshotWritten'
    BY <1>1 DEF WindowCovered, SnapshotWritten
  <1>6. QED BY <1>3, <1>4, <1>5 DEF StoredInv

\* Every step preserves IInv's part about stored rows.
LEMMA StoredStep ==
  ASSUME IInv, [Next]_vars
  PROVE  StoredInv'
  <1>0. /\ TypeOK /\ CallHasRow /\ FlushLocked /\ StoredInv
        /\ pc \in [Writers -> {"idle", "append", "put", "check", "lock", "replica"} \cup Flushing]
        /\ row \in [Writers -> Row \cup {None}]
    BY DEF IInv, StoredInv, TypeOK
  <1>1. ASSUME NEW w \in Writers, Writer(w) PROVE StoredInv'
    <2>1. ASSUME NEW id \in Ids, NEW t \in Tenants, NEW ctx \in Tenants \cup {NoTenant},
                 PutEntity(w, ctx, id, t)
          PROVE  StoredInv'
      <3>1. /\ UNCHANGED <<mem, sstables, snapshot, late, up, acked, replicated>>
            /\ \A v \in Writers \ {w} : pc'[v] = pc[v] /\ row'[v] = row[v]
            /\ pc'[w] \notin AfterPut
        BY <1>0, <2>1 DEF PutEntity, NewRow, Goto, diskVars, AfterPut, Flushing
      <3>2. QED BY <1>0, <3>1, QuietStep DEF AfterPut
    <2>2. ASSUME NEW id \in Ids, NEW t \in Tenants, ReplicaSent(w, id, t)
          PROVE  StoredInv'
      <3>1. /\ UNCHANGED <<mem, sstables, snapshot, late, up, acked, replicated>>
            /\ \A v \in Writers \ {w} : pc'[v] = pc[v] /\ row'[v] = row[v]
            /\ pc'[w] \notin AfterPut
        BY <1>0, <2>2 DEF ReplicaSent, NewRow, Goto, diskVars, AfterPut, Flushing
      <3>2. QED BY <1>0, <3>1, QuietStep DEF AfterPut
    <2>3. CASE WalAppend(w) \/ WalAppendFails(w)
      <3>1. /\ UNCHANGED <<mem, sstables, snapshot, late, up, acked, replicated>>
            /\ \A v \in Writers \ {w} : pc'[v] = pc[v] /\ row'[v] = row[v]
            /\ pc'[w] \notin AfterPut
        BY <1>0, <2>3
        DEF WalAppend, WalAppendFails, Goto, Return, historyVars, AfterPut, Flushing
      <3>2. QED BY <1>0, <3>1, QuietStep DEF AfterPut
    <2>4. CASE MemtablePut(w) \/ ReplicaWrite(w)
      <3>1. /\ UNCHANGED <<sstables, snapshot, up>>
            /\ row[w] \in Row /\ MemPut(w) /\ pc[w] \notin Flushing /\ pc'[w] \notin Flushing
            /\ \A v \in Writers \ {w} : pc'[v] = pc[v] /\ row'[v] = row[v]
            /\ pc'[w] \in AfterPut => row'[w] = row[w]
            /\ \A x \in acked' \cup replicated' : x \in acked \cup replicated \/ x = row[w]
        BY <1>0, <2>4
        DEF MemtablePut, ReplicaWrite, At, Goto, Return, diskVars, CallHasRow, AfterPut, Flushing
      <3>2. QED BY <1>0, <3>1, MemPutStep
    <2>5. CASE PutReturns(w) \/ CallFlush(w) \/ FlushFails(w)
      <3>1. /\ UNCHANGED <<mem, sstables, snapshot, late, up>>
            /\ \A v \in Writers \ {w} : pc'[v] = pc[v] /\ row'[v] = row[v]
            /\ pc'[w] \notin Flushing
            /\ pc'[w] \in AfterPut => pc[w] \in AfterPut /\ row'[w] = row[w]
            /\ \A x \in acked' \cup replicated' :
                  x \in acked \cup replicated \/ (pc[w] \in AfterPut /\ x = row[w])
        BY <1>0, <2>5
        DEF PutReturns, CallFlush, FlushFails, At, Goto, Return, diskVars, historyVars,
            AfterPut, Flushing
      <3>2. QED BY <1>0, <3>1, QuietStep
    <2>6. CASE FlushBegin(w) \/ FlushCreate(w) \/ FlushClose(w) \/ FlushReset(w)
      BY <1>0, <2>6, FlushBeginStep, FlushCreateStep, FlushCloseStep, FlushResetStep
    <2>7. QED
      BY <1>1, <2>1, <2>2, <2>3, <2>4, <2>5, <2>6 DEF Writer, Flush
  <1>2. ASSUME NEW r \in Readers, Reader(r) PROVE StoredInv'
    <2>1. UNCHANGED <<diskVars, up, mem, writerVars, historyVars>>
      BY <1>0, <1>2, ReaderType
    <2>2. UNCHANGED <<sstables, up, mem, pc, row, snapshot, acked, replicated, late>>
      BY <2>1 DEF diskVars, writerVars, historyVars
    <2>3. QED
      BY <1>0, <2>2 DEF StoredInv, AcceptedStored, CallStored, WindowCovered, SnapshotWritten, Stored
  <1>3. CASE Crash
    <2>1. up' = FALSE /\ pc' = [w \in Writers |-> "idle"]
      BY <1>3 DEF Crash
    <2>2. QED
      BY <2>1
      DEF StoredInv, AcceptedStored, CallStored, WindowCovered, SnapshotWritten, AfterPut, Flushing
  <1>4. CASE Restart
    <2>1. /\ replicated' = {} /\ acked' = acked /\ mem' = wal
          /\ \A w \in Writers : pc'[w] = "idle"
      BY <1>4 DEF Restart, IInv, DownIsQuiet, writerVars, historyVars
    <2>2. acked \subseteq Rows(wal.data)
      BY DEF IInv, AckedInWal
    <2>3. AcceptedStored'
      BY <2>1, <2>2 DEF AcceptedStored, Stored
    <2>4. QED
      BY <2>1, <2>3 DEF StoredInv, CallStored, WindowCovered, SnapshotWritten, AfterPut, Flushing
  <1>5. CASE UNCHANGED vars
    <2>1. UNCHANGED <<sstables, up, mem, pc, row, snapshot, acked, replicated, late>>
      BY <1>5 DEF vars, diskVars, writerVars, historyVars
    <2>2. QED
      BY <1>0, <2>1 DEF StoredInv, AcceptedStored, CallStored, WindowCovered, SnapshotWritten, Stored
  <1>6. QED BY <1>1, <1>2, <1>3, <1>4, <1>5 DEF Next

\* IInv holds in every reachable state.
LEMMA Inductive == Spec => []IInv
  <1>1. Init => IInv
    <2>1. ASSUME Init PROVE TypeOK /\ CallHasRow
      BY <2>1, TypeInit
    <2>2. ASSUME Init PROVE IInv
      BY <2>1, <2>2, NoneIsNoRow
      DEF Init, IInv, AckedInWal, AcceptedStored, FlushLocked, DownIsQuiet, CallLogged, CallStored,
          WindowCovered, SnapshotWritten, AfterPut, Flushing
    <2>3. QED BY <2>2
  <1>2. IInv /\ [Next]_vars => IInv'
    <2> SUFFICES ASSUME IInv, [Next]_vars PROVE IInv'
      OBVIOUS
    <2>1. TypeOK' /\ CallHasRow'
      BY TypeStep DEF IInv
    <2>2. AckedInWal' /\ CallLogged'
      BY LoggedStep DEF IInv
    <2>3. FlushLocked' /\ DownIsQuiet'
      BY LockStep DEF IInv
    <2>4. AcceptedStored' /\ CallStored' /\ WindowCovered' /\ SnapshotWritten'
      BY StoredStep DEF StoredInv
    <2>5. QED BY <2>1, <2>2, <2>3, <2>4 DEF IInv
  <1>3. QED BY <1>1, <1>2, PTL DEF Spec

\* While the process runs, a row that PutEntity or ReplicaWrite accepted can be
\* found in the memtable or in a complete SSTable, unless it was put between
\* the GetAllData and the Reset of some flush: that window is the only way in
\* which a running node loses a row.
THEOREM AcceptedIsStored == Spec => []AcceptedStored
  <1>1. IInv => AcceptedStored
    BY DEF IInv
  <1>2. QED BY Inductive, <1>1, PTL

\* FlushMemtable resets the memtable only after the rows that it had read are
\* in a complete SSTable.
THEOREM ResetsAfterFlush == Spec => ResetAfterFlush
  <1>1. IInv /\ [Next]_vars =>
          [\A w \in Writers : (pc[w] = "reset" /\ up' /\ mem' # mem /\ pc'[w] = "idle") =>
              \A r \in Rows(snapshot[w]) :
                 \E i \in DOMAIN sstables :
                    sstables[i].complete /\ r \in Rows(sstables[i].data)]_vars
    BY EmptyData DEF IInv, SnapshotWritten
  <1>2. QED BY Inductive, <1>1, PTL DEF Spec, ResetAfterFlush

-----------------------------------------------------------------------------
(* The readers: what their calls return belongs to the caller, and a flush *)
(* between two looks of a call hides nothing from it.                      *)

\* The rows of an entity are under its id, in memory and in every file.
Keyed(data) == \A id \in Ids : \A i \in DOMAIN data[id] : data[id][i].id = id

AllKeyed ==
    /\ Keyed(mem.data) /\ Keyed(wal.data)
    /\ \A w \in Writers : Keyed(snapshot[w])
    /\ \A i \in DOMAIN sstables : Keyed(sstables[i].data)

\* The SSTables hold what GetEntity would find there for a tenant, or any row.
FoundInTables(id, t) == PseudoTS[id, t] >= 0 /\ Candidates(id, t) # {}
HasTable(id) == \E i \in DOMAIN sstables : sstables[i].complete /\ sstables[i].data[id] # << >>

\* The memtable has rows of id, and so has the file that a flush is writing.
InMem(id) ==
    /\ mem.data[id] # << >>
    /\ \A w \in Writers : pc[w] \in Flushing => snapshot[w][id] # << >>

\* A version of id that the caller may see.
Fits(x, id, range, t) == x.id = id /\ InRange(id, range) /\ TenantMatches(t, x)

\* Between the two looks of GetEntity: the memtable's row is the caller's, and
\* what could be found at first is still found.
GetSound(l) ==
    l.op = "get" =>
        /\ l.mem # None => l.mem.id = l.id /\ l.mem.tenant = l.tenant
        /\ l.found => l.mem # None \/ FoundInTables(l.id, l.tenant)

\* During a scan: each id that should be found has been, or is in a file, or is
\* still to be looked up in the memtable and there.
ScanSound(l) ==
    l.op = "scan" =>
        /\ \A id \in l.todo \cup l.found : InRange(id, l.range)
        /\ \A id \in l.todo : l.result[id] = None
        /\ \A id \in Ids : l.result[id] # None => Fits(l.result[id], id, l.range, l.tenant)
        /\ l.tenant = NoTenant =>
              \A id \in l.found : l.result[id] # None \/ HasTable(id) \/ (id \in l.todo /\ InMem(id))

CallsSound == \A r \in Readers : GetSound(look[r]) /\ ScanSound(look[r])

\* A process that is down serves nobody.
DownReadsNothing == ~up => \A r \in Readers : look[r] = Idle

ReadInv ==
    /\ AllKeyed /\ DownReadsNothing /\ CallsSound
    /\ ReadBelongsToCaller /\ GetFindsVisible /\ ScanFindsStored

-----------------------------------------------------------------------------
(* Rows under their ids.                                                   *)

\* Memtable.Put appends the row to those of its own entity.
LEMMA PutKeyed ==
  ASSUME NEW d \in Data, NEW r \in Row, Keyed(d.data)
  PROVE  /\ Keyed(Put(d, r).data)
         /\ \A id \in Ids : d.data[id] # << >> => Put(d, r).data[id] # << >>
  <1> DEFINE e == Put(d, r).data
  <1>1. d.data \in [Ids -> Seq(Row)] /\ r.id \in Ids
    BY DEF Data, Row
  <1>2. e = [d.data EXCEPT ![r.id] = Append(@, r)]
    BY DEF Put
  <1>3. \A id \in Ids : id # r.id => e[id] = d.data[id]
    BY <1>1, <1>2
  <1>4. e[r.id] = Append(d.data[r.id], r) /\ d.data[r.id] \in Seq(Row)
    BY <1>1, <1>2
  <1>5. /\ DOMAIN e[r.id] = 1..(Len(d.data[r.id]) + 1) /\ Len(d.data[r.id]) \in Nat
        /\ \A i \in 1..Len(d.data[r.id]) : e[r.id][i] = d.data[r.id][i]
        /\ e[r.id][Len(d.data[r.id]) + 1] = r
        /\ DOMAIN d.data[r.id] = 1..Len(d.data[r.id])
        /\ e[r.id] # << >>
    BY <1>4
  <1> HIDE DEF e
  <1>6. ASSUME NEW i \in DOMAIN e[r.id] PROVE e[r.id][i].id = r.id
    <2>1. i \in 1..Len(d.data[r.id]) \/ i = Len(d.data[r.id]) + 1
      BY <1>5
    <2>2. QED BY <1>1, <1>5, <2>1 DEF Keyed
  <1>7. Keyed(e)
    BY <1>3, <1>6 DEF Keyed
  <1>8. \A id \in Ids : d.data[id] # << >> => e[id] # << >>
    BY <1>3, <1>5
  <1>9. QED BY <1>7, <1>8 DEF e

\* The empty memtable has no row of any entity.
LEMMA EmptyKeyed == Keyed(Empty.data) /\ \A id \in Ids : Empty.data[id] = << >>
  BY DEF Keyed, Empty

\* The last of several rows is one of them.
LEMMA LastOfRows ==
  ASSUME NEW s \in Seq(Row), s # << >>
  PROVE  LastRow(s) \in Row /\ Len(s) \in DOMAIN s /\ LastRow(s) = s[Len(s)] /\ LastRow(s) # None
  <1>1. Len(s) \in DOMAIN s /\ s[Len(s)] \in Row
    OBVIOUS
  <1>2. QED BY <1>1, NoneIsNoRow DEF LastRow

\* The parts of a well-formed state.
LEMMA Parts ==
  ASSUME TypeOK
  PROVE  /\ mem \in Data /\ wal \in Data
         /\ mem.data \in [Ids -> Seq(Row)] /\ wal.data \in [Ids -> Seq(Row)]
         /\ snapshot \in [Writers -> [Ids -> Seq(Row)]]
         /\ sstables \in Seq(Table) /\ Len(sstables) \in Nat /\ DOMAIN sstables = 1..Len(sstables)
         /\ \A i \in DOMAIN sstables : sstables[i] \in Table
         /\ \A i \in DOMAIN sstables : sstables[i].data \in [Ids -> Seq(Row)]
         /\ pc \in [Writers -> {"idle", "append", "put", "check", "lock", "replica"} \cup Flushing]
  <1>1. /\ sstables \in Seq(Table) /\ Len(sstables) \in Nat /\ DOMAIN sstables = 1..Len(sstables)
        /\ \A i \in DOMAIN sstables : sstables[i] \in Table
    BY DEF TypeOK
  <1>2. \A i \in DOMAIN sstables : sstables[i].data \in [Ids -> Seq(Row)]
    BY <1>1 DEF Table
  <1>3. mem.data \in [Ids -> Seq(Row)] /\ wal.data \in [Ids -> Seq(Row)]
    BY DEF TypeOK, Data
  <1>4. QED BY <1>1, <1>2, <1>3 DEF TypeOK

-----------------------------------------------------------------------------
(* What the readers see.                                                   *)

\* LatestFromMemtable returns a row of the tenant.
LEMMA MemtableLook ==
  ASSUME TypeOK, AllKeyed, NEW id \in Ids, NEW t, NEW x, x = LatestFromMemtable(id, t), x # None
  PROVE  x \in Row /\ x.id = id /\ x.tenant = t
  <1>1. mem.data[id] \in Seq(Row)
    BY Parts
  <1>2. mem.data[id] # << >> /\ x = LastRow(mem.data[id]) /\ x.tenant = t
    BY DEF LatestFromMemtable
  <1>3. QED BY <1>1, <1>2, LastOfRows DEF AllKeyed, Keyed

\* The row of a candidate is one of the entity and of the tenant.
LEMMA CandidateRow ==
  ASSUME TypeOK, AllKeyed, NEW id \in Ids, NEW t \in Tenants, NEW i \in Candidates(id, t)
  PROVE  /\ LastRow(sstables[i].data[id]) \in Row
         /\ LastRow(sstables[i].data[id]).id = id /\ LastRow(sstables[i].data[id]).tenant = t
  <1>1. i \in DOMAIN sstables /\ sstables[i].data[id] # << >> /\ LastRow(sstables[i].data[id]).tenant = t
    BY DEF Candidates
  <1>2. sstables[i].data[id] \in Seq(Row)
    BY <1>1, Parts
  <1>3. LastRow(sstables[i].data[id]) \in Row /\ LastRow(sstables[i].data[id]).id = id
    BY <1>1, <1>2, LastOfRows DEF AllKeyed, Keyed
  <1>4. QED BY <1>1, <1>3

\* LatestFromSSTables finds a row of the tenant exactly if there is a candidate
\* and the pseudo timestamp is not negative.
LEMMA SSTablesLook ==
  ASSUME TypeOK, AllKeyed, NEW id \in Ids, NEW t \in Tenants
  PROVE  /\ LatestFromSSTables(id, t) # None <=> FoundInTables(id, t)
         /\ LatestFromSSTables(id, t) # None =>
               /\ LatestFromSSTables(id, t) \in Row
               /\ LatestFromSSTables(id, t).id = id /\ LatestFromSSTables(id, t).tenant = t
  <1> DEFINE ts(i) == ExtractRowTimestamp(LastRow(sstables[i].data[id]))
             C == Candidates(id, t)
             best == {i \in C : ts(i) >= 0 /\ \A j \in C : ts(j) <= ts(i)}
             oldest == CHOOSE i \in best : \A j \in best : i <= j
             found == LatestFromSSTables(id, t)
  <1>1. found = IF best = {} THEN None ELSE LastRow(sstables[oldest].data[id])
    BY DEF LatestFromSSTables
  <1>2. PseudoTS[id, t] \in Int
    BY StorageAssumption
  <1>3. ASSUME NEW i \in C
        PROVE  /\ LastRow(sstables[i].data[id]) \in Row
               /\ LastRow(sstables[i].data[id]).id = id /\ LastRow(sstables[i].data[id]).tenant = t
               /\ ts(i) = PseudoTS[id, t]
    <2>1. i \in Candidates(id, t)
      OBVIOUS
    <2>2. /\ LastRow(sstables[i].data[id]) \in Row
          /\ LastRow(sstables[i].data[id]).id = id /\ LastRow(sstables[i].data[id]).tenant = t
      BY <2>1, CandidateRow
    <2>3. QED BY <2>2 DEF ExtractRowTimestamp
  <1> HIDE DEF C, ts
  <1>4. PseudoTS[id, t] >= 0 => best = C
    <2> DEFINE p == PseudoTS[id, t]
    <2>1. p \in Int /\ \A i \in C : ts(i) = p
      BY <1>2, <1>3
    <2> HIDE DEF p
    <2>2. p >= 0 => \A i \in C : i \in best
      BY <2>1
    <2>3. best \subseteq C
      OBVIOUS
    <2> HIDE DEF best
    <2>4. QED BY <2>2, <2>3 DEF p
  <1>10. ~(PseudoTS[id, t] >= 0) => best = {}
    BY <1>3
  <1>5. best \in SUBSET Nat
    BY Parts DEF Candidates, C
  <1>6. best # {} => oldest \in best
    <2> HIDE DEF best
    <2>1. best # {} => \E i \in best : \A j \in best : i <= j
      BY <1>5, LeastNat
    <2>2. QED BY <2>1
  <1>7. best # {} => /\ LastRow(sstables[oldest].data[id]) \in Row
                     /\ LastRow(sstables[oldest].data[id]).id = id
                     /\ LastRow(sstables[oldest].data[id]).tenant = t
    <2> HIDE DEF oldest
    <2>1. best # {} => oldest \in C
      BY <1>6
    <2>2. QED BY <1>3, <2>1
  <1>8. best # {} <=> FoundInTables(id, t)
    <2> HIDE DEF best
    <2>1. QED BY <1>4, <1>10 DEF FoundInTables, C
  <1> HIDE DEF best, oldest
  <1>9. QED BY <1>1, <1>7, <1>8, NoneIsNoRow

\* NewestInSSTables returns a row that fits, and finds one for an unfiltered
\* scan whenever a complete file has rows of the entity.
LEMMA NewestLook ==
  ASSUME TypeOK, AllKeyed, NEW id \in Ids, NEW t
  PROVE  /\ NewestInSSTables(id, t) # None =>
               /\ NewestInSSTables(id, t) \in Row
               /\ NewestInSSTables(id, t).id = id /\ TenantMatches(t, NewestInSSTables(id, t))
         /\ t = NoTenant /\ HasTable(id) => NewestInSSTables(id, t) # None
  <1> DEFINE hits == {i \in DOMAIN sstables :
                        /\ sstables[i].complete
                        /\ sstables[i].data[id] # << >>
                        /\ TenantMatches(t, LastRow(sstables[i].data[id]))}
             newest == CHOOSE i \in hits : \A j \in hits : j <= i
             found == NewestInSSTables(id, t)
  <1>1. found = IF hits = {} THEN None ELSE LastRow(sstables[newest].data[id])
    BY DEF NewestInSSTables
  <1>2. hits \in SUBSET (1..Len(sstables)) /\ Len(sstables) \in Nat
    BY Parts
  <1>3. hits # {} => newest \in hits
    <2> HIDE DEF hits
    <2>1. hits # {} => \E i \in hits : \A j \in hits : j <= i
      BY <1>2, GreatestPosition
    <2>2. QED BY <2>1
  <1>4. ASSUME NEW i \in hits
        PROVE  /\ LastRow(sstables[i].data[id]) \in Row /\ LastRow(sstables[i].data[id]).id = id
               /\ TenantMatches(t, LastRow(sstables[i].data[id]))
    <2>1. sstables[i].data[id] \in Seq(Row) /\ sstables[i].data[id] # << >> /\ i \in DOMAIN sstables
      BY Parts
    <2>2. QED BY <2>1, LastOfRows DEF AllKeyed, Keyed
  <1>5. t = NoTenant /\ HasTable(id) => hits # {}
    BY DEF HasTable, TenantMatches
  <1> HIDE DEF hits, newest
  <1>6. QED BY <1>1, <1>3, <1>4, <1>5, NoneIsNoRow

-----------------------------------------------------------------------------
(* What the writers do to the readers.                                     *)

\* What the memtable has of an entity is there after the step too, or in a file.
MemKept == \A id \in Ids : InMem(id) => InMem(id)' \/ HasTable(id)'

\* What every step of a running process guarantees the readers.
ReadersSafe == AllKeyed' /\ FilesKept /\ MemKept /\ UNCHANGED look

\* A step that leaves rows and files alone, and no flush begins.
LEMMA RestingStep ==
  ASSUME AllKeyed, UNCHANGED <<mem, sstables, snapshot, look>>, Keyed(wal'.data),
         \A v \in Writers : pc'[v] \in Flushing => pc[v] \in Flushing
  PROVE  ReadersSafe
  <1>1. AllKeyed'
    BY DEF AllKeyed, Keyed
  <1>2. FilesKept
    BY DEF FilesKept
  <1>3. MemKept
    BY DEF MemKept, InMem
  <1>4. QED BY <1>1, <1>2, <1>3 DEF ReadersSafe

\* A step that puts a row into the memtable.
LEMMA PuttingStep ==
  ASSUME TypeOK, AllKeyed, UNCHANGED <<wal, sstables, snapshot, look>>,
         NEW x \in Row, mem' = Put(mem, x),
         \A v \in Writers : pc'[v] \in Flushing => pc[v] \in Flushing
  PROVE  ReadersSafe
  <1>1. Keyed(mem'.data) /\ \A id \in Ids : mem.data[id] # << >> => mem'.data[id] # << >>
    <2>1. mem \in Data /\ Keyed(mem.data)
      BY Parts DEF AllKeyed
    <2>2. QED BY <2>1, PutKeyed
  <1>2. AllKeyed'
    BY <1>1 DEF AllKeyed, Keyed
  <1>3. FilesKept
    BY DEF FilesKept
  <1>4. MemKept
    BY <1>1 DEF MemKept, InMem
  <1>5. QED BY <1>2, <1>3, <1>4 DEF ReadersSafe

\* FlushMemtable's steps: what the memtable had of an entity when it is reset is
\* in the file that was closed before.
LEMMA FlushingStep ==
  ASSUME IInv, AllKeyed, NEW w \in Writers,
         FlushBegin(w) \/ FlushCreate(w) \/ FlushClose(w) \/ FlushReset(w)
  PROVE  ReadersSafe
  <1>0. /\ TypeOK /\ snapshot \in [Writers -> [Ids -> Seq(Row)]]
        /\ DOMAIN sstables = 1..Len(sstables) /\ Len(sstables) \in Nat
        /\ \A i \in DOMAIN sstables : sstables[i] \in Table
        /\ sstables \in Seq(Table)
        /\ pc \in [Writers -> {"idle", "append", "put", "check", "lock", "replica"} \cup Flushing]
    BY Parts DEF IInv
  <1> USE DEF At, Goto, Return, diskVars, historyVars
  <1>1. CASE FlushBegin(w)
    <2>1. /\ UNCHANGED <<mem, wal, sstables, look>> /\ snapshot' = [snapshot EXCEPT ![w] = mem.data]
          /\ \A v \in Writers : v # w => pc'[v] = pc[v]
      BY <1>0, <1>1 DEF FlushBegin
    <2>2. snapshot'[w] = mem.data /\ \A v \in Writers : v # w => snapshot'[v] = snapshot[v]
      BY <1>0, <2>1
    <2>3. AllKeyed'
      BY <2>1, <2>2 DEF AllKeyed, Keyed
    <2>4. FilesKept
      BY <2>1 DEF FilesKept
    <2>5. MemKept
      BY <2>1, <2>2 DEF MemKept, InMem
    <2>6. QED BY <2>1, <2>3, <2>4, <2>5 DEF ReadersSafe
  <1>2. CASE FlushCreate(w)
    <2> DEFINE x == [complete |-> FALSE, data |-> snapshot[w]]
    <2>1. /\ UNCHANGED <<mem, wal, snapshot, look>> /\ sstables' = Append(sstables, x)
          /\ \A v \in Writers : pc'[v] \in Flushing => pc[v] \in Flushing
      BY <1>0, <1>2 DEF FlushCreate, Flushing
    <2>2. x \in Table /\ x.data = snapshot[w]
      BY <1>0 DEF Table
    <2> HIDE DEF x
    <2>3. /\ DOMAIN sstables' = 1..(Len(sstables) + 1) /\ sstables'[Len(sstables) + 1] = x
          /\ \A i \in 1..Len(sstables) : sstables'[i] = sstables[i]
      BY <1>0, <2>1, <2>2
    <2>4. \A i \in DOMAIN sstables' : i \in DOMAIN sstables \/ i = Len(sstables) + 1
      BY <1>0, <2>3
    <2>5. \A i \in DOMAIN sstables' : Keyed(sstables'[i].data)
      BY <1>0, <2>2, <2>3, <2>4 DEF AllKeyed
    <2>6. AllKeyed'
      BY <2>1, <2>5 DEF AllKeyed, Keyed
    <2>7. FilesKept
      BY <1>0, <2>3 DEF FilesKept
    <2>8. MemKept
      BY <2>1 DEF MemKept, InMem
    <2>9. QED BY <2>1, <2>6, <2>7, <2>8 DEF ReadersSafe
  <1>3. CASE FlushClose(w)
    <2>1. /\ UNCHANGED <<mem, wal, snapshot, look>>
          /\ sstables' = [sstables EXCEPT ![Len(sstables)].complete = TRUE]
          /\ \A v \in Writers : pc'[v] \in Flushing => pc[v] \in Flushing
      BY <1>0, <1>3 DEF FlushClose, Flushing
    <2>2. DOMAIN sstables' = DOMAIN sstables
      BY <2>1
    <2>3. \A i \in DOMAIN sstables :
             /\ sstables'[i].data = sstables[i].data
             /\ sstables[i].complete => sstables'[i].complete
      <3> TAKE i \in DOMAIN sstables
      <3>1. CASE i = Len(sstables)
        <4>1. sstables'[i] = [sstables[i] EXCEPT !.complete = TRUE] /\ sstables[i] \in Table
          BY <1>0, <2>1, <3>1
        <4>2. QED BY <4>1 DEF Table
      <3>2. CASE i # Len(sstables)
        <4>1. sstables'[i] = sstables[i]
          BY <2>1, <3>2
        <4>2. QED BY <4>1
      <3>3. QED BY <3>1, <3>2
    <2>4. AllKeyed'
      BY <2>1, <2>2, <2>3 DEF AllKeyed, Keyed
    <2>5. FilesKept
      BY <2>2, <2>3 DEF FilesKept
    <2>6. MemKept
      BY <2>1 DEF MemKept, InMem
    <2>7. QED BY <2>1, <2>4, <2>5, <2>6 DEF ReadersSafe
  <1>4. CASE FlushReset(w)
    <2>1. UNCHANGED <<wal, sstables, snapshot, look>> /\ mem' = Empty /\ pc[w] = "reset"
      BY <1>4 DEF FlushReset
    <2>2. AllKeyed'
      BY <2>1, EmptyKeyed DEF AllKeyed, Keyed
    <2>3. FilesKept
      BY <2>1 DEF FilesKept
    <2>4. ASSUME NEW id \in Ids, InMem(id) PROVE HasTable(id)'
      <3>1. snapshot[w][id] # << >>
        BY <2>1, <2>4 DEF InMem, Flushing
      <3>2. snapshot[w] # Empty.data
        BY <3>1, EmptyKeyed
      <3>3. \E i \in DOMAIN sstables : sstables[i].complete /\ sstables[i].data = snapshot[w]
        BY <2>1, <3>2 DEF IInv, SnapshotWritten
      <3>4. QED BY <2>1, <3>1, <3>3 DEF HasTable
    <2>5. QED BY <2>1, <2>2, <2>3, <2>4 DEF ReadersSafe, MemKept
  <1>5. QED BY <1>1, <1>2, <1>3, <1>4

\* Every step of a writer.
LEMMA WriterSafe ==
  ASSUME IInv, AllKeyed, NEW w \in Writers, Writer(w)
  PROVE  ReadersSafe
  <1>0. /\ TypeOK /\ CallHasRow /\ Keyed(wal.data) /\ wal \in Data
        /\ pc \in [Writers -> {"idle", "append", "put", "check", "lock", "replica"} \cup Flushing]
    BY Parts DEF IInv, AllKeyed
  <1> USE DEF At, Goto, Return, diskVars, historyVars
  <1>1. CASE WalAppend(w) \/ WalAppendFails(w)
    <2>1. /\ UNCHANGED <<mem, sstables, snapshot, look>> /\ wal' \in {wal, Put(wal, row[w])}
          /\ \A v \in Writers : pc'[v] \in Flushing => pc[v] \in Flushing
          /\ row[w] \in Row
      BY <1>0, <1>1 DEF WalAppend, WalAppendFails, Flushing, CallHasRow
    <2>2. Keyed(wal'.data)
      BY <1>0, <2>1, PutKeyed
    <2>3. QED BY <2>1, <2>2, RestingStep
  <1>2. CASE MemtablePut(w) \/ ReplicaWrite(w)
    <2>1. /\ UNCHANGED <<wal, sstables, snapshot, look>> /\ mem' = Put(mem, row[w])
          /\ \A v \in Writers : pc'[v] \in Flushing => pc[v] \in Flushing
          /\ row[w] \in Row
      BY <1>0, <1>2 DEF MemtablePut, ReplicaWrite, MemPut, Flushing, CallHasRow
    <2>2. QED BY <1>0, <2>1, PuttingStep
  <1>3. CASE FlushBegin(w) \/ FlushCreate(w) \/ FlushClose(w) \/ FlushReset(w)
    BY <1>3, FlushingStep
  <1>4. CASE \/ \E id \in Ids, t \in Tenants :
                  \/ \E ctx \in Tenants \cup {NoTenant} : PutEntity(w, ctx, id, t)
                  \/ ReplicaSent(w, id, t)
             \/ PutReturns(w) \/ CallFlush(w) \/ FlushFails(w)
    <2>1. UNCHANGED <<mem, wal, sstables, snapshot, look>>
      BY <1>4 DEF PutEntity, ReplicaSent, NewRow, PutReturns, CallFlush, FlushFails
    <2>2. \A v \in Writers : pc'[v] \in Flushing => pc[v] \in Flushing
      BY <1>0, <1>4 DEF PutEntity, ReplicaSent, NewRow, PutReturns, CallFlush, FlushFails, Flushing
    <2>3. QED BY <1>0, <2>1, <2>2, RestingStep
  <1>5. QED BY <1>1, <1>2, <1>3, <1>4 DEF Writer, Flush

-----------------------------------------------------------------------------
(* The readers.                                                            *)

\* The properties and CallsSound, reader by reader.
GotSound(l) ==
    l.op = "got" =>
        /\ l.result # None => l.result.tenant = l.tenant /\ l.result.id = l.id
        /\ l.found => l.result # None
ScannedSound(l) ==
    l.op = "scanned" =>
        /\ \A id \in Ids : l.result[id] # None => Fits(l.result[id], id, l.range, l.tenant)
        /\ l.tenant = NoTenant => \A id \in l.found : l.result[id] # None
ReaderSound(l) == GetSound(l) /\ ScanSound(l) /\ GotSound(l) /\ ScannedSound(l)
ReadersSound == \A r \in Readers : ReaderSound(look[r])

\* ReadInv is AllKeyed, DownReadsNothing and that every reader is sound.
LEMMA ReadParts ==
  ReadInv <=> AllKeyed /\ DownReadsNothing /\ ReadersSound
  BY DEF ReadersSound, ReadInv, CallsSound, ReaderSound, GotSound, ScannedSound, ReadBelongsToCaller,
         GetFindsVisible, ScanFindsStored, Fits

\* The record of a call has the fields of its operation.
LEMMA CallParts ==
  ASSUME TypeOK, NEW r \in Readers
  PROVE  /\ look[r].op = "get" => look[r] \in GetCall
         /\ look[r].op = "scan" => look[r] \in ScanCall
         /\ look[r].op \in {"none", "get", "got", "scan", "scanned"}
  <1>1. look[r] \in {Idle} \cup GetCall \cup GotCall \cup ScanCall \cup ScanDone
    BY DEF TypeOK
  <1>2. QED BY <1>1 DEF Idle, GetCall, GotCall, ScanCall, ScanDone

\* An idle reader is sound.
LEMMA IdleSound == ReaderSound(Idle)
  BY DEF ReaderSound, GetSound, ScanSound, GotSound, ScannedSound, Idle

\* What a call relies on outlives every step of a writer.
LEMMA ReaderKept ==
  ASSUME TypeOK, FilesKept, MemKept, NEW l \in GetCall \cup GotCall \cup ScanCall \cup ScanDone \cup {Idle},
         ReaderSound(l)
  PROVE  ReaderSound(l)'
  <1>1. ASSUME NEW id, NEW t, FoundInTables(id, t) PROVE FoundInTables(id, t)'
    <2>1. PICK i : i \in Candidates(id, t)
      BY <1>1 DEF FoundInTables
    <2>2. i \in Candidates(id, t)'
      BY <2>1 DEF Candidates, FilesKept
    <2>3. QED BY <1>1, <2>2 DEF FoundInTables
  <1>2. ASSUME NEW id, HasTable(id) PROVE HasTable(id)'
    BY <1>2 DEF HasTable, FilesKept
  <1>3. GetSound(l)'
    BY <1>1 DEF ReaderSound, GetSound
  <1>4. ScanSound(l)'
    <2>1. l.op = "scan" => l \in ScanCall
      BY DEF GetCall, GotCall, ScanCall, ScanDone, Idle
    <2>2. l.op = "scan" => l.found \subseteq Ids
      BY <2>1 DEF ScanCall
    <2>3. QED BY <1>2, <2>2 DEF ReaderSound, ScanSound, MemKept
  <1>5. GotSound(l)' /\ ScannedSound(l)'
    BY DEF ReaderSound, GotSound, ScannedSound
  <1>6. QED BY <1>3, <1>4, <1>5 DEF ReaderSound

\* The first look of GetEntity.
LEMMA GetMemStep ==
  ASSUME TypeOK, AllKeyed, NEW r \in Readers, NEW id \in Ids, NEW t \in Tenants, GetMem(r, id, t)
  PROVE  ReaderSound(look'[r])
  <1> DEFINE found == LatestFromMemtable(id, t) # None \/ LatestFromSSTables(id, t) # None
             m == LatestFromMemtable(id, t)
             c == [op |-> "get", id |-> id, tenant |-> t, mem |-> m, found |-> found]
  <1>1. look'[r] = c
    BY DEF GetMem, TypeOK
  <1>2. m # None => m.id = id /\ m.tenant = t
    BY MemtableLook
  <1>3. found => m # None \/ FoundInTables(id, t)
    BY SSTablesLook
  <1> HIDE DEF m, found
  <1>4. ReaderSound(c)
    BY <1>2, <1>3 DEF ReaderSound, GetSound, ScanSound, GotSound, ScannedSound
  <1>5. QED BY <1>1, <1>4

\* The second: what was visible at first is returned or replaced by a row of a file.
LEMMA GetSSTStep ==
  ASSUME TypeOK, AllKeyed, NEW r \in Readers, ReaderSound(look[r]), GetSST(r)
  PROVE  ReaderSound(look'[r])
  <1> DEFINE l == look[r]
             s == LatestFromSSTables(l.id, l.tenant)
             x == Newer(l.mem, s)
             c == [op |-> "got", id |-> l.id, tenant |-> l.tenant, found |-> l.found, result |-> x]
  <1>1. look'[r] = c
    BY DEF GetSST, TypeOK
  <1>2. l \in GetCall /\ l.op = "get"
    BY CallParts DEF GetSST
  <1>3. l.id \in Ids /\ l.tenant \in Tenants /\ l.mem \in Row \cup {None}
    BY <1>2 DEF GetCall
  <1>4. /\ s # None <=> FoundInTables(l.id, l.tenant)
        /\ s # None => s \in Row /\ s.id = l.id /\ s.tenant = l.tenant
    BY <1>3, SSTablesLook
  <1>5. /\ l.mem # None => l.mem.id = l.id /\ l.mem.tenant = l.tenant
        /\ l.found => l.mem # None \/ s # None
    BY <1>2, <1>4 DEF ReaderSound, GetSound
  <1>6. x = l.mem \/ x = s
    BY DEF Newer
  <1>7. x = None => l.mem = None /\ s = None
    <2>1. l.mem # None => l.mem.ts \in Nat
      BY <1>3 DEF Row
    <2>2. s = None /\ l.mem # None => x = l.mem
      BY <2>1 DEF Newer
    <2>3. l.mem = None => x = s
      BY DEF Newer
    <2>4. QED BY <1>6, <2>2, <2>3
  <1> HIDE DEF x, s
  <1>8. ReaderSound(c)
    BY <1>4, <1>5, <1>6, <1>7 DEF ReaderSound, GetSound, ScanSound, GotSound, ScannedSound
  <1>9. QED BY <1>1, <1>8

\* GetAllEntities at the start of a scan: what should be found is in the
\* memtable, and then in the snapshot of a flush too, or in a file.
LEMMA ScanKeysStep ==
  ASSUME IInv, AllKeyed, NEW r \in Readers, NEW range \in ScanRanges, NEW t \in Tenants \cup {NoTenant},
         ScanKeys(r, range, t)
  PROVE  ReaderSound(look'[r])
  <1> DEFINE todo == {id \in Ids : mem.data[id] # << >> /\ InRange(id, range)}
             found == {id \in Ids : InRange(id, range) /\ HasRow(id)}
             none == [id \in Ids |-> None]
             c == [op |-> "scan", range |-> range, tenant |-> t, todo |-> todo, result |-> none, found |-> found]
  <1>0. TypeOK
    BY DEF IInv
  <1>1. look'[r] = c
    BY <1>0 DEF ScanKeys, TypeOK
  <1>2. \A id \in todo \cup found : InRange(id, range)
    OBVIOUS
  <1>3. \A id \in Ids : none[id] = None
    OBVIOUS
  <1>4. ASSUME NEW id \in found PROVE HasTable(id) \/ (id \in todo /\ InMem(id))
    <2>1. CASE \E j \in DOMAIN mem.data[id] : mem.data[id][j] \notin late
      <3>1. PICK j \in DOMAIN mem.data[id] : mem.data[id][j] \notin late
        BY <2>1
      <3>2. mem.data[id] # << >> /\ id \in todo
        BY <3>1
      <3>3. mem.data[id][j] \in Rows(mem.data) /\ mem.data[id][j].id = id
        BY <3>1 DEF Rows, AllKeyed, Keyed
      <3>4. ASSUME NEW w \in Writers, pc[w] \in Flushing PROVE snapshot[w][id] # << >>
        <4>1. mem.data[id][j] \in Rows(snapshot[w])
          BY <3>1, <3>3, <3>4 DEF IInv, WindowCovered
        <4>2. PICK k \in Ids, i \in Nat : i \in DOMAIN snapshot[w][k] /\ snapshot[w][k][i] = mem.data[id][j]
          <5>1. PICK k \in Ids : \E i \in DOMAIN snapshot[w][k] : snapshot[w][k][i] = mem.data[id][j]
            BY <4>1 DEF Rows
          <5>2. snapshot[w][k] \in Seq(Row)
            BY <1>0, Parts
          <5>3. DOMAIN snapshot[w][k] \subseteq Nat
            BY <5>2
          <5>4. QED BY <5>1, <5>3
        <4>3. k = id
          BY <3>3, <4>2 DEF AllKeyed, Keyed
        <4>4. QED BY <4>2, <4>3
      <3>5. QED BY <3>2, <3>4 DEF InMem
    <2>2. CASE \E i \in DOMAIN sstables :
                 sstables[i].complete /\ \E j \in DOMAIN sstables[i].data[id] : sstables[i].data[id][j] \notin late
      BY <2>2 DEF HasTable
    <2>3. QED BY <2>1, <2>2 DEF HasRow
  <1> HIDE DEF todo, found, none
  <1>5. found \subseteq Ids /\ todo \subseteq Ids
    BY DEF found, todo
  <1>6. ReaderSound(c)
    BY <1>2, <1>3, <1>4, <1>5 DEF ReaderSound, GetSound, ScanSound, GotSound, ScannedSound
  <1>7. QED BY <1>1, <1>6

\* memtable.Get of one id: an unfiltered scan takes what is there.
LEMMA ScanGetStep ==
  ASSUME TypeOK, AllKeyed, NEW r \in Readers, NEW id \in Ids, ReaderSound(look[r]), ScanGet(r, id)
  PROVE  ReaderSound(look'[r])
  <1> DEFINE l == look[r]
             rows == mem.data[id]
             hit == rows # << >> /\ TenantMatches(l.tenant, LastRow(rows))
             x == IF hit THEN LastRow(rows) ELSE None
             c == [l EXCEPT !.todo = @ \ {id}, !.result[id] = x]
  <1>1. look'[r] = c
    BY DEF ScanGet, TypeOK
  <1>2. l \in ScanCall /\ l.op = "scan" /\ id \in l.todo
    BY CallParts DEF ScanGet
  <1>3. l.result \in [Ids -> Row \cup {None}] /\ l.found \subseteq Ids /\ l.todo \subseteq Ids
    BY <1>2 DEF ScanCall
  <1>4. rows \in Seq(Row)
    BY Parts
  <1>5. x # None => x.id = id /\ TenantMatches(l.tenant, x)
    BY <1>4, LastOfRows DEF AllKeyed, Keyed
  <1>6. l.tenant = NoTenant /\ rows # << >> => x # None
    BY <1>4, LastOfRows DEF TenantMatches
  <1>7. /\ c.op = "scan" /\ c.range = l.range /\ c.tenant = l.tenant /\ c.found = l.found
        /\ c.todo = l.todo \ {id} /\ c.result[id] = x
        /\ \A k \in Ids : k # id => c.result[k] = l.result[k]
    <2> HIDE DEF x
    <2>1. QED BY <1>2, <1>3 DEF ScanCall
  <1>8. /\ \A k \in l.todo \cup l.found : InRange(k, l.range)
        /\ \A k \in l.todo : l.result[k] = None
        /\ \A k \in Ids : l.result[k] # None => Fits(l.result[k], k, l.range, l.tenant)
        /\ l.tenant = NoTenant =>
              \A k \in l.found : l.result[k] # None \/ HasTable(k) \/ (k \in l.todo /\ InMem(k))
    BY <1>2 DEF ReaderSound, ScanSound
  <1>9. InMem(id) => rows # << >>
    BY DEF InMem
  <1> HIDE DEF c, x, l, rows, hit
  <1>10. /\ \A k \in c.todo \cup c.found : InRange(k, c.range)
         /\ \A k \in c.todo : c.result[k] = None
    BY <1>3, <1>7, <1>8
  <1>11. \A k \in Ids : c.result[k] # None => Fits(c.result[k], k, c.range, c.tenant)
    <2> TAKE k \in Ids
    <2>1. CASE k = id
      BY <1>2, <1>5, <1>7, <1>8, <2>1 DEF Fits
    <2>2. CASE k # id
      BY <1>7, <1>8, <2>2
    <2>3. QED BY <2>1, <2>2
  <1>12. ASSUME c.tenant = NoTenant, NEW k \in c.found
         PROVE  c.result[k] # None \/ HasTable(k) \/ (k \in c.todo /\ InMem(k))
    <2>1. CASE k = id
      <3>1. l.tenant = NoTenant /\ id \in l.found /\ l.result[id] = None
        BY <1>2, <1>7, <1>8, <1>12, <2>1
      <3>2. HasTable(id) \/ rows # << >>
        BY <1>8, <1>9, <3>1
      <3>3. QED BY <1>6, <1>7, <2>1, <3>1, <3>2
    <2>2. CASE k # id
      <3>1. k \in Ids /\ l.tenant = NoTenant /\ k \in l.found
        BY <1>3, <1>7, <1>12
      <3>2. QED BY <1>7, <1>8, <2>2, <3>1
    <2>3. QED BY <2>1, <2>2
  <1>13. ReaderSound(c)
    BY <1>7, <1>10, <1>11, <1>12 DEF ReaderSound, GetSound, ScanSound, GotSound, ScannedSound
  <1>14. QED BY <1>1, <1>13

\* The files at the end of a scan: an id that has not been found in the
\* memtable is in a file.
LEMMA ScanSSTStep ==
  ASSUME TypeOK, AllKeyed, NEW r \in Readers, ReaderSound(look[r]), ScanSST(r)
  PROVE  ReaderSound(look'[r])
  <1> DEFINE l == look[r]
             result == [id \in Ids |->
                          IF l.result[id] # None \/ ~InRange(id, l.range) THEN l.result[id]
                          ELSE NewestInSSTables(id, l.tenant)]
             c == [op |-> "scanned", range |-> l.range, tenant |-> l.tenant, found |-> l.found,
                   result |-> result]
  <1>1. look'[r] = c
    BY DEF ScanSST, TypeOK
  <1>2. l \in ScanCall /\ l.op = "scan" /\ l.todo = {}
    BY CallParts DEF ScanSST
  <1>3. l.found \subseteq Ids
    BY <1>2 DEF ScanCall
  <1>4. /\ \A k \in l.found : InRange(k, l.range)
        /\ \A k \in Ids : l.result[k] # None => Fits(l.result[k], k, l.range, l.tenant)
        /\ l.tenant = NoTenant => \A k \in l.found : l.result[k] # None \/ HasTable(k)
    BY <1>2 DEF ReaderSound, ScanSound
  <1>5. ASSUME NEW k \in Ids
        PROVE  /\ result[k] # None => Fits(result[k], k, l.range, l.tenant)
               /\ l.tenant = NoTenant /\ k \in l.found => result[k] # None
    <2>1. CASE l.result[k] # None \/ ~InRange(k, l.range)
      <3>1. result[k] = l.result[k]
        BY <2>1
      <3> HIDE DEF l, result
      <3>2. QED BY <1>4, <2>1, <3>1
    <2>2. CASE l.result[k] = None /\ InRange(k, l.range)
      <3>1. result[k] = NewestInSSTables(k, l.tenant)
        BY <2>2
      <3>2. /\ NewestInSSTables(k, l.tenant) # None =>
                  /\ NewestInSSTables(k, l.tenant).id = k
                  /\ TenantMatches(l.tenant, NewestInSSTables(k, l.tenant))
            /\ l.tenant = NoTenant /\ HasTable(k) => NewestInSSTables(k, l.tenant) # None
        BY NewestLook
      <3> HIDE DEF l, result
      <3>3. QED BY <1>4, <2>2, <3>1, <3>2 DEF Fits
    <2>3. QED BY <2>1, <2>2
  <1> HIDE DEF result, l
  <1>6. ReaderSound(c)
    BY <1>3, <1>5 DEF ReaderSound, GetSound, ScanSound, GotSound, ScannedSound
  <1>7. QED BY <1>1, <1>6

\* Every step of a reader keeps all readers sound.
LEMMA ReaderStep ==
  ASSUME IInv, ReadInv, NEW r \in Readers, Reader(r)
  PROVE  ReadInv'
  <1>0. /\ TypeOK /\ CallHasRow /\ AllKeyed /\ DownReadsNothing
        /\ \A q \in Readers : ReaderSound(look[q])
    BY ReadParts DEF IInv, ReadersSound
  <1>1. UNCHANGED <<sstables, wal, mem, up, pc, row, snapshot>>
    BY <1>0, ReaderType DEF diskVars, writerVars
  <1>2. up /\ \A q \in Readers : q # r => look'[q] = look[q]
    BY <1>0 DEF Reader, GetMem, GetSST, ScanKeys, ScanGet, ScanSST, ReadReturns, TypeOK
  <1>3. ReaderSound(look'[r])
    <2>1. CASE ReadReturns(r)
      <3>1. look'[r] = Idle
        BY <1>0, <2>1 DEF ReadReturns, TypeOK
      <3>2. QED BY <3>1, IdleSound
    <2>2. QED
      BY <1>0, <2>1, GetMemStep, GetSSTStep, ScanKeysStep, ScanGetStep, ScanSSTStep DEF Reader
  <1>4. ASSUME NEW q \in Readers PROVE ReaderSound(look[q])'
    <2>1. PICK l : l = look'[q] /\ ReaderSound(l)
      BY <1>0, <1>2, <1>3
    <2>2. ReaderSound(l)'
      BY <1>1, <2>1
      DEF ReaderSound, GetSound, ScanSound, GotSound, ScannedSound, FoundInTables, Candidates,
          HasTable, InMem
    <2>3. QED BY <2>1, <2>2
  <1>5. AllKeyed' /\ DownReadsNothing'
    BY <1>0, <1>1, <1>2 DEF AllKeyed, Keyed, DownReadsNothing
  <1>6. (ReadInv <=> AllKeyed /\ DownReadsNothing /\ ReadersSound)'
    BY ReadParts, PTL
  <1>7. QED BY <1>4, <1>5, <1>6 DEF ReadersSound

\* Every step keeps the invariant of the readers.
LEMMA ReadStep ==
  ASSUME IInv, ReadInv, [Next]_vars
  PROVE  ReadInv'
  <1>0. TypeOK /\ AllKeyed /\ DownReadsNothing /\ \A r \in Readers : ReaderSound(look[r])
    BY ReadParts DEF IInv, ReadersSound
  <1>1. (ReadInv <=> AllKeyed /\ DownReadsNothing /\ ReadersSound)'
    BY ReadParts, PTL
  <1>2. ASSUME ReadersSafe, UNCHANGED up PROVE ReadInv'
    <2>1. AllKeyed' /\ DownReadsNothing' /\ FilesKept /\ MemKept /\ look' = look
      BY <1>0, <1>2 DEF ReadersSafe, DownReadsNothing
    <2>2. ASSUME NEW r \in Readers PROVE ReaderSound(look[r])'
      <3>1. PICK l \in GetCall \cup GotCall \cup ScanCall \cup ScanDone \cup {Idle} : l = look[r]
        BY <1>0 DEF TypeOK
      <3>2. ReaderSound(l)'
        BY <1>0, <2>1, <3>1, ReaderKept
      <3>3. QED BY <2>1, <3>1, <3>2
    <2>3. QED BY <1>1, <2>1, <2>2 DEF ReadersSound
  <1>3. ASSUME NEW w \in Writers, Writer(w) PROVE ReadInv'
    <2>1. UNCHANGED up
      BY <1>3 DEF Writer, Flush, PutEntity, ReplicaSent, WalAppend, WalAppendFails, MemtablePut,
                  PutReturns, CallFlush, FlushBegin, FlushCreate, FlushClose, FlushFails, FlushReset,
                  ReplicaWrite
    <2>2. QED BY <1>0, <1>2, <1>3, <2>1, WriterSafe
  <1>4. ASSUME NEW r \in Readers, Reader(r) PROVE ReadInv'
    BY <1>4, ReaderStep
  <1>5. ASSUME AllKeyed', \A r \in Readers : look'[r] = Idle PROVE ReadInv'
    <2>1. ASSUME NEW r \in Readers PROVE ReaderSound(look[r])'
      <3>1. ReaderSound(Idle)'
        BY IdleSound, PTL
      <3>2. look'[r] = Idle
        BY <1>5
      <3>3. QED BY <3>1, <3>2 DEF Idle
    <2>2. DownReadsNothing'
      BY <1>5 DEF DownReadsNothing, Idle
    <2>3. QED BY <1>1, <1>5, <2>1, <2>2 DEF ReadersSound
  <1>6. CASE Crash
    <2>1. /\ mem' = Empty /\ wal' = wal /\ snapshot' = [w \in Writers |-> Empty.data]
          /\ look' = [r \in Readers |-> Idle]
      BY <1>6 DEF Crash
    <2>2. \A i \in DOMAIN sstables' : i \in DOMAIN sstables /\ sstables'[i].data = sstables[i].data
      <3>1. PICK spoilt \in SUBSET DOMAIN sstables :
              sstables' = [i \in DOMAIN sstables |-> [sstables[i] EXCEPT !.complete = @ /\ i \notin spoilt]]
        BY <1>6 DEF Crash
      <3>2. \A i \in DOMAIN sstables : sstables[i] \in Table
        BY <1>0, Parts
      <3>3. QED BY <3>1, <3>2 DEF Table
    <2>3. AllKeyed'
      BY <1>0, <2>1, <2>2, EmptyKeyed DEF AllKeyed, Keyed
    <2>4. QED BY <1>5, <2>1, <2>3
  <1>7. CASE Restart
    <2>1. mem' = wal /\ UNCHANGED <<wal, sstables, snapshot, look>> /\ ~up
      BY <1>7 DEF Restart, diskVars, writerVars
    <2>2. AllKeyed'
      BY <1>0, <2>1 DEF AllKeyed, Keyed
    <2>3. QED BY <1>0, <1>5, <2>1, <2>2 DEF DownReadsNothing
  <1>8. CASE UNCHANGED vars
    <2>1. UNCHANGED <<wal, mem, sstables, snapshot, look, up, pc>>
      BY <1>8 DEF vars, diskVars, writerVars
    <2>2. ReadersSafe
      BY <1>0, <2>1, RestingStep DEF AllKeyed
    <2>3. QED BY <1>2, <2>1, <2>2
  <1>9. QED BY <1>3, <1>4, <1>6, <1>7, <1>8 DEF Next

-----------------------------------------------------------------------------
(* The theorems.                                                           *)

\* The invariant of the readers holds in every reachable state.
LEMMA ReadInductive == Spec => []ReadInv
  <1>1. Init => ReadInv
    <2> SUFFICES ASSUME Init PROVE ReadInv
      OBVIOUS
    <2>1. AllKeyed
      BY EmptyKeyed DEF Init, AllKeyed
    <2>2. \A r \in Readers : look[r] = Idle
      BY DEF Init
    <2>3. DownReadsNothing /\ \A r \in Readers : ReaderSound(look[r])
      BY <2>2, IdleSound DEF DownReadsNothing
    <2>4. QED BY <2>1, <2>3, ReadParts DEF ReadersSound
  <1>2. IInv /\ ReadInv /\ [Next]_vars => ReadInv'
    BY ReadStep
  <1>3. QED BY <1>1, <1>2, Inductive, PTL DEF Spec

\* GetEntity and RangeScan return versions of the entities asked for and, if a
\* tenant is given, of that tenant, whatever is written and flushed meanwhile.
THEOREM ReadsBelongToCaller == Spec => []ReadBelongsToCaller
  <1>1. ReadInv => ReadBelongsToCaller
    BY DEF ReadInv
  <1>2. QED BY <1>1, ReadInductive, PTL

\* A GetEntity that begins when a version can be found returns one, even if a
\* flush moves it from the memtable to an SSTable between its two looks.
THEOREM GetsFindVisible == Spec => []GetFindsVisible
  <1>1. ReadInv => GetFindsVisible
    BY DEF ReadInv
  <1>2. QED BY <1>1, ReadInductive, PTL

\* An unfiltered RangeScan returns every entity that had a row when it began,
\* other than rows that a flush window may drop, at any interleaving of its
\* lookups with flushes.
THEOREM ScansFindStored == Spec => []ScanFindsStored
  <1>1. ReadInv => ScanFindsStored
    BY DEF ReadInv
  <1>2. QED BY <1>1, ReadInductive, PTL
=============================================================================
