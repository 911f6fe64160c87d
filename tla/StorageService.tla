--------------------------- MODULE StorageService ---------------------------
(***************************************************************************)
(* The storage service of one node (cmd/allidbd/storage_service.go) over   *)
(* its memtable (core/storage/memtable): PutEntity logs a row, puts it     *)
(* into the memtable and flushes a full memtable into a new SSTable;       *)
(* ReplicaWrite puts a row into the memtable without logging it; GetEntity *)
(* and RangeScan merge the memtable with the SSTables.  Any number of      *)
(* goroutines run these calls.  The log is taken at its word (module WAL): *)
(* a row whose Append returned nil survives a crash, in order.             *)
(*                                                                         *)
(* A row stands for one version of an entity: its id, its tenant and its   *)
(* UpdatedAt.  The size of the memtable is counted in rows.                *)
(***************************************************************************)
EXTENDS Integers, Sequences

CONSTANTS
    Writers,     \* goroutines that run PutEntity or ReplicaWrite
    Readers,     \* goroutines that run GetEntity or RangeScan
    Ids,         \* entity ids, as numbers so that ranges of them exist
    Tenants,
    NoTenant,    \* the empty tenant of RangeScan: no filtering
    PseudoTS,    \* PseudoTS[id, t]: the first 8 bytes of a serialized entity
    MaxSize,     \* maxSize of the memtable, in rows
    ScanRanges,  \* the <<start, end>> pairs that scans are asked for, 0 for ""
    None,
    MaxRows,     \* bound: rows ever written
    MaxCrashes   \* bound: how often the process may die

ASSUME StorageAssumption ==
    /\ Ids \subseteq Nat \ {0}
    /\ PseudoTS \in [Ids \X Tenants -> Int]
    /\ MaxSize \in Nat \ {0}
    /\ ScanRanges \subseteq Nat \X Nat
    /\ NoTenant \notin Tenants
    /\ MaxRows \in Nat
    /\ MaxCrashes \in Nat

Row == [id : Ids, tenant : Tenants, ts : Nat]

ASSUME NoneIsNoRow == None \notin Row /\ None \notin Writers

\* memtableData: the rows of every entity in the order they were put.
Data == [data : [Ids -> Seq(Row)], size : Nat]

VARIABLES
    \* On disk.
    wal,        \* what replaying the log builds
    sstables,   \* the sstable-*.sst files by name, that is by time of creation
    \* In the process.
    up,
    mem,        \* the memtable
    flushMu,    \* who holds flushMu
    pc,         \* pc[w]: where writer w is in its call
    row,        \* row[w]: the row of that call
    snapshot,   \* snapshot[w]: what GetAllData returned to w
    look,       \* look[r]: the call reader r is in and what it has seen
    \* History.
    clock,      \* the timestamps given out
    acked,      \* rows whose PutEntity returned nil
    replicated, \* rows whose ReplicaWrite returned nil, since the last crash
    late,       \* rows put between the GetAllData and the Reset of a flush
    crashes

diskVars    == <<wal, sstables>>
writerVars  == <<flushMu, pc, row, snapshot>>
historyVars == <<clock, acked, replicated, late, crashes>>
vars == <<diskVars, up, mem, writerVars, look, historyVars>>

Empty == [data |-> [id \in Ids |-> << >>], size |-> 0]

\* Mutant: the size goes down.
PutShrinks(d, r) == [data |-> [d.data EXCEPT ![r.id] = Append(@, r)], size |-> d.size - 1]

\* Memtable.Put, on a memtableData.
Put(d, r) == [data |-> [d.data EXCEPT ![r.id] = Append(@, r)], size |-> d.size + 1]

Rows(data) == UNION {{data[id][i] : i \in DOMAIN data[id]} : id \in Ids}

\* NewReader accepts a file only if its footer is there: the file is complete.
Table == [complete : BOOLEAN, data : [Ids -> Seq(Row)]]

Stored(r) ==
    \/ r \in Rows(mem.data)
    \/ \E i \in DOMAIN sstables : sstables[i].complete /\ r \in Rows(sstables[i].data)

Flushing == {"create", "write", "reset"}

\* A reader: no call, or GetEntity or RangeScan after its first look and at its end.
Idle == [op |-> "none"]
GetCall  == [op : {"get"}, id : Ids, tenant : Tenants, found : BOOLEAN, mem : Row \cup {None}]
GotCall  == [op : {"got"}, id : Ids, tenant : Tenants, found : BOOLEAN,
             result : Row \cup {None}]
ScanCall == [op : {"scan"}, range : ScanRanges, tenant : Tenants \cup {NoTenant},
             found : SUBSET Ids, todo : SUBSET Ids, result : [Ids -> Row \cup {None}]]
ScanDone == [op : {"scanned"}, range : ScanRanges, tenant : Tenants \cup {NoTenant},
             found : SUBSET Ids, result : [Ids -> Row \cup {None}]]

TypeOK ==
    /\ wal \in Data
    /\ sstables \in Seq(Table)
    /\ up \in BOOLEAN
    /\ mem \in Data
    /\ flushMu \in Writers \cup {None}
    /\ pc \in [Writers -> {"idle", "append", "put", "check", "lock", "replica"} \cup Flushing]
    /\ row \in [Writers -> Row \cup {None}]
    /\ snapshot \in [Writers -> [Ids -> Seq(Row)]]
    /\ look \in [Readers -> {Idle} \cup GetCall \cup GotCall \cup ScanCall \cup ScanDone]
    /\ clock \in Nat
    /\ acked \subseteq Row
    /\ replicated \subseteq Row
    /\ late \subseteq Row
    /\ crashes \in Nat

Init ==
    /\ wal = Empty
    /\ sstables = << >>
    /\ up = TRUE
    /\ mem = Empty
    /\ flushMu = None
    /\ pc = [w \in Writers |-> "idle"]
    /\ row = [w \in Writers |-> None]
    /\ snapshot = [w \in Writers |-> Empty.data]
    /\ look = [r \in Readers |-> Idle]
    /\ clock = 0
    /\ acked = {}
    /\ replicated = {}
    /\ late = {}
    /\ crashes = 0

-----------------------------------------------------------------------------
(* PutEntity.                                                              *)

At(w, l) == up /\ pc[w] = l
Goto(w, l) == pc' = [pc EXCEPT ![w] = l]

\* The call returns to its caller.
Return(w) ==
    /\ pc' = [pc EXCEPT ![w] = "idle"]
    /\ row' = [row EXCEPT ![w] = None]

\* A new version of an entity; UpdatedAt was set when it was made.
NewRow(w, id, t) ==
    /\ clock < MaxRows
    /\ clock' = clock + 1
    /\ row' = [row EXCEPT ![w] = [id |-> id, tenant |-> t, ts |-> clock + 1]]

\* The tenant guard lets a call pass only if its context carries a tenant and
\* the entity is that tenant's; any other call returns without a trace.
PutEntity(w, ctx, id, t) ==
    /\ At(w, "idle")
    /\ ctx # NoTenant
    /\ ctx = t
    /\ NewRow(w, id, t)
    /\ Goto(w, "append")
    /\ UNCHANGED <<diskVars, up, mem, flushMu, snapshot, look,
                   acked, replicated, late, crashes>>

\* wal.Append returns nil.
WalAppend(w) ==
    /\ At(w, "append")
    /\ wal' = Put(wal, row[w])
    /\ Goto(w, "put")
    /\ UNCHANGED <<sstables, up, mem, flushMu, row, snapshot, look, historyVars>>

\* Mutant: the error of wal.Append is ignored.
WalAppendIgnored(w) ==
    /\ At(w, "append")
    /\ Goto(w, "put")
    /\ UNCHANGED <<diskVars, up, mem, flushMu, row, snapshot, look, historyVars>>

\* wal.Append returns an error; the record may be in the log all the same
\* (a failed Sync).
WalAppendFails(w) ==
    /\ At(w, "append")
    /\ wal' \in {wal, Put(wal, row[w])}
    /\ Return(w)
    /\ UNCHANGED <<sstables, up, mem, flushMu, snapshot, look, historyVars>>

\* Some flush has read the memtable and not yet reset it.
FlushWindow == \E v \in Writers : pc[v] \in Flushing

MemPut(w) ==
    /\ mem' = Put(mem, row[w])
    /\ late' = IF FlushWindow THEN late \cup {row[w]} ELSE late

MemtablePut(w) ==
    /\ At(w, "put")
    /\ MemPut(w)
    /\ Goto(w, "check")
    /\ UNCHANGED <<diskVars, up, flushMu, row, snapshot, look,
                   clock, acked, replicated, crashes>>

ShouldFlush == mem.size >= MaxSize

PutReturns(w) ==
    /\ At(w, "check")
    /\ ~ShouldFlush
    /\ acked' = acked \cup {row[w]}
    /\ Return(w)
    /\ UNCHANGED <<diskVars, up, mem, flushMu, snapshot, look,
                   clock, replicated, late, crashes>>

CallFlush(w) ==
    /\ At(w, "check")
    /\ ShouldFlush
    /\ Goto(w, "lock")
    /\ UNCHANGED <<diskVars, up, mem, flushMu, row, snapshot, look, historyVars>>

-----------------------------------------------------------------------------
(* FlushMemtable.                                                          *)

\* flushMu.Lock and GetAllData.  An empty memtable is only reset.
FlushBegin(w) ==
    /\ At(w, "lock")
    /\ flushMu = None
    /\ flushMu' = w
    /\ snapshot' = [snapshot EXCEPT ![w] = mem.data]
    /\ Goto(w, IF mem.data = Empty.data THEN "reset" ELSE "create")
    /\ UNCHANGED <<diskVars, up, mem, row, look, historyVars>>

\* Mutant: the memtable is reset without waiting for writer.Close.
CreateThenReset(w) ==
    /\ At(w, "create")
    /\ sstables' = Append(sstables, [complete |-> FALSE, data |-> snapshot[w]])
    /\ Goto(w, "reset")
    /\ UNCHANGED <<wal, up, mem, flushMu, row, snapshot, look, historyVars>>

\* os.Create under the final name, then header and rows.
FlushCreate(w) ==
    /\ At(w, "create")
    /\ sstables' = Append(sstables, [complete |-> FALSE, data |-> snapshot[w]])
    /\ Goto(w, "write")
    /\ UNCHANGED <<wal, up, mem, flushMu, row, snapshot, look, historyVars>>

\* writer.Close has written index and footer: the file is a valid SSTable.
FlushClose(w) ==
    /\ At(w, "write")
    /\ sstables' = [sstables EXCEPT ![Len(sstables)].complete = TRUE]
    /\ Goto(w, "reset")
    /\ UNCHANGED <<wal, up, mem, flushMu, row, snapshot, look, historyVars>>

\* Mutants: the memtable is reset on errors too; the mutex stays locked.
FailsAndResets(w) ==
    /\ up /\ pc[w] \in {"create", "write"}
    /\ mem' = Empty
    /\ flushMu' = None
    /\ Return(w)
    /\ UNCHANGED <<diskVars, up, snapshot, look, historyVars>>

FailsLocked(w) ==
    /\ up /\ pc[w] \in {"create", "write"}
    /\ Return(w)
    /\ UNCHANGED <<diskVars, up, mem, flushMu, snapshot, look, historyVars>>

\* Any error: the partial file stays, the memtable stays, PutEntity fails.
FlushFails(w) ==
    /\ up /\ pc[w] \in {"create", "write"}
    /\ flushMu' = None
    /\ Return(w)
    /\ UNCHANGED <<diskVars, up, mem, snapshot, look, historyVars>>

\* memtable.Reset, the deferred unlock, and PutEntity returns nil.
FlushReset(w) ==
    /\ At(w, "reset")
    /\ mem' = Empty
    /\ flushMu' = None
    /\ acked' = acked \cup {row[w]}
    /\ Return(w)
    /\ UNCHANGED <<diskVars, up, snapshot, look, clock, replicated, late, crashes>>

-----------------------------------------------------------------------------
(* ReplicaWrite: the row was made at another node some time ago.           *)

ReplicaSent(w, id, t) ==
    /\ At(w, "idle")
    /\ NewRow(w, id, t)
    /\ Goto(w, "replica")
    /\ UNCHANGED <<diskVars, up, mem, flushMu, snapshot, look,
                   acked, replicated, late, crashes>>

ReplicaWrite(w) ==
    /\ At(w, "replica")
    /\ MemPut(w)
    /\ replicated' = replicated \cup {row[w]}
    /\ Return(w)
    /\ UNCHANGED <<diskVars, up, flushMu, snapshot, look, clock, acked, crashes>>

-----------------------------------------------------------------------------
(* GetEntity.                                                              *)

LastRow(rows) == rows[Len(rows)]

\* Mutant: the tenant is not compared.
LatestOfAnyTenant(id, t) ==
    LET rows == mem.data[id] IN IF rows # << >> THEN LastRow(rows) ELSE None

\* Only the last row counts, whatever its tenant.
LatestFromMemtable(id, t) ==
    LET rows == mem.data[id]
    IN  IF rows # << >> /\ LastRow(rows).tenant = t THEN LastRow(rows) ELSE None

\* extractRowTimestamp: a serialized entity starts with the length and the
\* first bytes of its id; its timestamps are at the other end.
ExtractRowTimestamp(r) == PseudoTS[r.id, r.tenant]

\* The complete files whose last row of the entity belongs to the tenant.
Candidates(id, t) ==
    {i \in DOMAIN sstables :
        /\ sstables[i].complete
        /\ sstables[i].data[id] # << >>
        /\ LastRow(sstables[i].data[id]).tenant = t}

\* Mutant: the loop ends at the newest file that has the entity.
StopAtNewest(id, t) ==
    LET having == {i \in DOMAIN sstables : sstables[i].complete /\ sstables[i].data[id] # << >>}
        top == {i \in having : \A j \in having : j <= i} \cap Candidates(id, t)
    IN  IF top = {} THEN None ELSE LastRow(sstables[CHOOSE i \in top : TRUE].data[id])

\* The loop goes through the files newest first and keeps a row whose
\* timestamp is >= the best one so far (initially 0): of the rows with the
\* highest timestamp it ends with the one visited last.
LatestFromSSTables(id, t) ==
    LET ts(i) == ExtractRowTimestamp(LastRow(sstables[i].data[id]))
        best == {i \in Candidates(id, t) :
                    /\ ts(i) >= 0
                    /\ \A j \in Candidates(id, t) : ts(j) <= ts(i)}
    IN  IF best = {} THEN None
        ELSE LastRow(sstables[CHOOSE i \in best : \A j \in best : i <= j].data[id])

\* The choice between the two.
Newer(m, s) ==
    IF m # None /\ m.ts >= (IF s = None THEN 0 ELSE ExtractRowTimestamp(s)) THEN m ELSE s

GetMem(r, id, t) ==
    /\ up
    /\ look[r].op = "none"
    /\ look' = [look EXCEPT ![r] =
            [op |-> "get", id |-> id, tenant |-> t, mem |-> LatestFromMemtable(id, t),
             \* history: some version could be found when the call began
             found |-> LatestFromMemtable(id, t) # None \/ LatestFromSSTables(id, t) # None]]
    /\ UNCHANGED <<diskVars, up, mem, writerVars, historyVars>>

GetSST(r) ==
    /\ up
    /\ look[r].op = "get"
    /\ look' = [look EXCEPT ![r] =
            [op |-> "got", id |-> @.id, tenant |-> @.tenant, found |-> @.found,
             result |-> Newer(@.mem, LatestFromSSTables(@.id, @.tenant))]]
    /\ UNCHANGED <<diskVars, up, mem, writerVars, historyVars>>

-----------------------------------------------------------------------------
(* RangeScan.                                                              *)

InRange(key, range) ==
    /\ range[1] # 0 => key >= range[1]
    /\ range[2] # 0 => key < range[2]

TenantMatches(t, r) == t = NoTenant \/ r.tenant = t

\* Some row of id is stored, other than one that a flush may drop.
HasRow(id) ==
    LET kept(rows) == \E j \in DOMAIN rows : rows[j] \notin late
    IN  \/ kept(mem.data[id])
        \/ \E i \in DOMAIN sstables : sstables[i].complete /\ kept(sstables[i].data[id])

\* GetAllEntities: the ids that the memtable holds now.
ScanKeys(r, range, t) ==
    /\ up
    /\ look[r].op = "none"
    /\ look' = [look EXCEPT ![r] =
            [op |-> "scan", range |-> range, tenant |-> t,
             todo |-> {id \in Ids : mem.data[id] # << >> /\ InRange(id, range)},
             result |-> [id \in Ids |-> None],
             \* history: the ids that the scan should find
             found |-> {id \in Ids : InRange(id, range) /\ HasRow(id)}]]
    /\ UNCHANGED <<diskVars, up, mem, writerVars, historyVars>>

\* memtable.Get of one of these ids; a flush may have emptied the memtable.
ScanGet(r, id) ==
    /\ up
    /\ look[r].op = "scan"
    /\ id \in look[r].todo
    /\ LET rows == mem.data[id]
           hit == rows # << >> /\ TenantMatches(look[r].tenant, LastRow(rows))
       IN  look' = [look EXCEPT ![r].todo = @ \ {id},
                                ![r].result[id] = IF hit THEN LastRow(rows) ELSE None]
    /\ UNCHANGED <<diskVars, up, mem, writerVars, historyVars>>

\* Mutant: the newest file only.
NewestFileOnly(id, t) ==
    LET n == Len(sstables)
    IN  IF n = 0 \/ ~sstables[n].complete \/ sstables[n].data[id] = << >> THEN None
        ELSE LastRow(sstables[n].data[id])

\* The row that the newest file with a row of the tenant has for id.
NewestInSSTables(id, t) ==
    LET hits == {i \in DOMAIN sstables :
                    /\ sstables[i].complete
                    /\ sstables[i].data[id] # << >>
                    /\ TenantMatches(t, LastRow(sstables[i].data[id]))}
    IN  IF hits = {} THEN None
        ELSE LastRow(sstables[CHOOSE i \in hits : \A j \in hits : j <= i].data[id])

ScanSST(r) ==
    /\ up
    /\ look[r].op = "scan"
    /\ look[r].todo = {}
    /\ look' = [look EXCEPT ![r] =
            [op |-> "scanned", range |-> @.range, tenant |-> @.tenant, found |-> @.found,
             result |-> [id \in Ids |->
                IF @.result[id] # None \/ ~InRange(id, @.range) THEN @.result[id]
                ELSE NewestInSSTables(id, @.tenant)]]]
    /\ UNCHANGED <<diskVars, up, mem, writerVars, historyVars>>

ReadReturns(r) ==
    /\ up
    /\ look[r].op \in {"got", "scanned"}
    /\ look' = [look EXCEPT ![r] = Idle]
    /\ UNCHANGED <<diskVars, up, mem, writerVars, historyVars>>

-----------------------------------------------------------------------------
(* Crashes and restarts.                                                   *)

\* The process dies.  SSTables are never synced: a power loss may spoil any
\* of them, and a spoilt file is a file that NewReader rejects.
Crash ==
    /\ up
    /\ crashes < MaxCrashes
    /\ crashes' = crashes + 1
    /\ \E spoilt \in SUBSET DOMAIN sstables :
          sstables' = [i \in DOMAIN sstables |->
                          [sstables[i] EXCEPT !.complete = @ /\ i \notin spoilt]]
    /\ up' = FALSE
    /\ mem' = Empty
    /\ flushMu' = None
    /\ pc' = [w \in Writers |-> "idle"]
    /\ row' = [w \in Writers |-> None]
    /\ snapshot' = [w \in Writers |-> Empty.data]
    /\ look' = [r \in Readers |-> Idle]
    /\ replicated' = {}
    /\ late' = {}
    /\ UNCHANGED <<wal, clock, acked>>

\* main replays the whole log into a new memtable; nothing is flushed.
Restart ==
    /\ ~up
    /\ up' = TRUE
    /\ mem' = wal
    /\ UNCHANGED <<diskVars, writerVars, look, historyVars>>

-----------------------------------------------------------------------------
Flush(w) == FlushBegin(w) \/ FlushCreate(w) \/ FlushClose(w) \/ FlushFails(w) \/ FlushReset(w)

Writer(w) ==
    \/ \E id \in Ids, t \in Tenants :
          \/ \E ctx \in Tenants \cup {NoTenant} : PutEntity(w, ctx, id, t)
          \/ ReplicaSent(w, id, t)
    \/ WalAppend(w) \/ WalAppendFails(w) \/ MemtablePut(w)
    \/ PutReturns(w) \/ CallFlush(w) \/ Flush(w)
    \/ ReplicaWrite(w)

Reader(r) ==
    \/ \E id \in Ids, t \in Tenants : GetMem(r, id, t)
    \/ GetSST(r)
    \/ \E range \in ScanRanges, t \in Tenants \cup {NoTenant} : ScanKeys(r, range, t)
    \/ \E id \in Ids : ScanGet(r, id)
    \/ ScanSST(r)
    \/ ReadReturns(r)

Next ==
    \/ \E w \in Writers : Writer(w)
    \/ \E r \in Readers : Reader(r)
    \/ Crash
    \/ Restart

Spec == Init /\ [][Next]_vars

\* The scheduler runs a goroutine that is inside a call; a mutex is handed to
\* a starving waiter.  Nobody has to start a call.
InCall(w) == WalAppend(w) \/ WalAppendFails(w) \/ MemtablePut(w) \/ PutReturns(w)
             \/ CallFlush(w) \/ FlushCreate(w) \/ FlushClose(w) \/ FlushFails(w)
             \/ FlushReset(w) \/ ReplicaWrite(w)

Fairness == \A w \in Writers : WF_vars(InCall(w)) /\ SF_vars(FlushBegin(w))

FairSpec == Spec /\ Fairness

-----------------------------------------------------------------------------
(* Properties.                                                             *)

\* PutEntity returns nil only after its row is in the log, so that a restart
\* brings the row back, whatever happened to memtable and SSTables: flush
\* races, failed flushes, spoilt files.
AckedInWal == acked \subseteq Rows(wal.data)

\* While the process runs, a row that PutEntity or ReplicaWrite accepted is in
\* the memtable or in a complete SSTable, unless it was put while a flush was
\* between its GetAllData and its Reset.  Covers concurrent flushes, failed
\* flushes and restarts.
AcceptedStored ==
    up => \A r \in acked \cup replicated : r \in late \/ Stored(r)

\* A failed or a crashed flush never makes rows of the memtable disappear: a
\* step that empties the memtable of a running process leaves every row that
\* the flush had read in a complete SSTable.
ResetAfterFlush ==
    [][\A w \in Writers : (pc[w] = "reset" /\ up' /\ mem' # mem /\ pc'[w] = "idle") =>
          \A r \in Rows(snapshot[w]) :
              \E i \in DOMAIN sstables : sstables[i].complete /\ r \in Rows(sstables[i].data)]_vars

\* What GetEntity and RangeScan return belongs to the tenant that asked and is
\* a version of the entity it asked for.
ReadBelongsToCaller ==
    \A r \in Readers :
        /\ look[r].op = "got" /\ look[r].result # None =>
              look[r].result.tenant = look[r].tenant /\ look[r].result.id = look[r].id
        /\ look[r].op = "scanned" =>
              \A id \in Ids : look[r].result[id] # None =>
                  /\ look[r].result[id].id = id
                  /\ InRange(id, look[r].range)
                  /\ TenantMatches(look[r].tenant, look[r].result[id])

\* A flush that moves rows from the memtable to an SSTable between the two
\* looks of GetEntity does not hide them: if some version could be found when
\* the call began, the call returns a version.
GetFindsVisible ==
    \A r \in Readers : look[r].op = "got" /\ look[r].found => look[r].result # None

\* Nor does a flush in the middle of an unfiltered RangeScan (the scan that
\* builds the Merkle trees of the anti-entropy repair): an entity that had a row
\* (not a late one) when the scan began is in its result.
ScanFindsStored ==
    \A r \in Readers : look[r].op = "scanned" /\ look[r].tenant = NoTenant =>
        \A id \in look[r].found : look[r].result[id] # None

\* Every call of PutEntity and ReplicaWrite returns, and flushMu is free again.
PutTerminates == \A w \in Writers : pc[w] # "idle" ~> pc[w] = "idle"

-----------------------------------------------------------------------------
(* The inductive invariant behind AckedInWal and AcceptedStored.           *)

\* flushMu is held exactly during a flush, so there is one flush at a time.
FlushLocked == \A w \in Writers : pc[w] \in Flushing <=> flushMu = w

\* A process that is down has no call in flight and has accepted nothing.
DownIsQuiet ==
    ~up => replicated = {} /\ \A w \in Writers : pc[w] = "idle"

AfterPut == {"check", "lock"} \cup Flushing

\* A call has a row.
CallHasRow == \A w \in Writers : pc[w] # "idle" => row[w] \in Row

\* The row of a call is logged before it is put.
CallLogged ==
    \A w \in Writers : pc[w] \in {"put"} \cup AfterPut => row[w] \in Rows(wal.data)

\* A row that was put stays stored while its call goes on.
CallStored ==
    \A w \in Writers : pc[w] \in AfterPut => row[w] \in late \/ Stored(row[w])

\* What the memtable holds beyond the snapshot of a flush came in late.
WindowCovered ==
    \A w \in Writers : pc[w] \in Flushing => Rows(mem.data) \subseteq Rows(snapshot[w]) \cup late

\* The file being written is the newest; once closed it holds the snapshot.
SnapshotWritten ==
    \A w \in Writers :
        /\ pc[w] = "write" => sstables # << >> /\ sstables[Len(sstables)].data = snapshot[w]
        /\ pc[w] = "reset" =>
              \/ snapshot[w] = Empty.data
              \/ \E i \in DOMAIN sstables : sstables[i].complete /\ sstables[i].data = snapshot[w]

IInv ==
    /\ TypeOK
    /\ AckedInWal
    /\ AcceptedStored
    /\ FlushLocked
    /\ DownIsQuiet
    /\ CallHasRow
    /\ CallLogged
    /\ CallStored
    /\ WindowCovered
    /\ SnapshotWritten

-----------------------------------------------------------------------------
(* What comments and documents say of the code and the code does not do.   *)

\* storage_service.go says that FlushMemtable writes all entities to an
\* SSTable: when it resets the memtable, every row there is in some SSTable.
FlushWritesAll ==
    [][\A w \in Writers : (pc[w] = "reset" /\ up' /\ pc'[w] = "idle") =>
          \A r \in Rows(mem.data) :
              \E i \in DOMAIN sstables : sstables[i].complete /\ r \in Rows(sstables[i].data)]_vars

\* The comment of latestFromSSTables: it "returns the newest matching entity".
SSTablesNewestWins ==
    \A id \in Ids, t \in Tenants : LatestFromSSTables(id, t) = NewestInSSTables(id, t)
=============================================================================
