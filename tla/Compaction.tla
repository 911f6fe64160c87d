----------------------------- MODULE Compaction -----------------------------
(***************************************************************************)
(* Compaction of SSTables (core/storage/compaction): a scheduler asks the  *)
(* planner for jobs, worker goroutines wait for the IO limiter, merge the  *)
(* files of a job into a new one, rename it into place and delete the old  *)
(* ones.  Meanwhile flushes create files and readers list the directory    *)
(* and read it file by file (cmd/allidbd/storage_service.go).              *)
(*                                                                         *)
(* A file name is <<prefix, number>>.  Readers and planner look at prefix  *)
(* "sstable"; the executor names its files with ExecPrefix.  A row is a    *)
(* version number; RowLen gives the length of its data.  The first bytes   *)
(* of a row hold the entity id, so extractTimestamp is the same for all    *)
(* rows of an entity and is left out of the comparison of rows.            *)
(***************************************************************************)
EXTENDS CompactionPlanner, FiniteSets

CONSTANTS
    Workers,       \* worker goroutines (MaxConcurrent of them)
    Readers,       \* goroutines in latestFromSSTables or RangeScan
    Scheduler,     \* the scheduler goroutine
    Callers,       \* goroutines that call TriggerCompaction and GetStats
    Ids,           \* entity ids
    ExecPrefix,    \* ExecutorConfig.SSTablePrefix
    RowLen,        \* RowLen[v]: len(Data) of version v
    MaxIOPS,       \* of the IO limiter, per second
    MaxBandwidth,
    None,
    MaxVersions,   \* bound: rows ever flushed
    MaxJobs,       \* bound: jobs ever queued
    MaxStops,      \* bound: calls of Stop
    MaxCrashes,    \* bound: kills of the process
    MaxPowerLosses \* bound: power losses

ASSUME CompactionAssumption ==
    /\ IsFiniteSet(Ids)
    /\ MaxVersions \in Nat
    /\ RowLen \in [1..MaxVersions -> Nat \ {0}]
    /\ MaxIOPS \in Nat \ {0}
    /\ MaxBandwidth \in Nat
    /\ MinSize \in Nat

Planners == Callers \cup {Scheduler}
Names == {"sstable", ExecPrefix} \X Nat

VARIABLES
    dir,        \* the directory: name -> file
    queue,      \* jobQueue
    queueMu,    \* the caller of GetStats that holds jobQueueMu, or None
    planner,    \* planner[p]: a goroutine in checkAndSchedule and the jobs it still has to queue
    worker,     \* worker[w]: where worker w is and its job
    nextSeq,    \* Executor.nextSeq
    window,     \* the IO limiter's counters for the current second
    running,    \* Manager.running; FALSE: stopCh is closed
    reader,     \* reader[r]: what reader r listed and found
    \* History.
    now,        \* time, in steps; the highest number in a name so far
    scheduled,  \* jobs ever queued
    versions,   \* versions flushed so far
    born,       \* born[id]: versions that were in a complete file
    stops,
    crashes,
    losses

vars == <<dir, queue, queueMu, planner, worker, nextSeq, window, running, reader,
          now, scheduled, versions, born, stops, crashes, losses>>

\* A file is complete if NewReader accepts it, broken if nobody will ever finish
\* it, and settled if it has outlived a power loss.
File == [rows : [Ids -> Seq(1..MaxVersions)], mtime : Nat, old : BOOLEAN,
         state : {"writing", "complete", "broken"}, settled : BOOLEAN]

IdleWorker == [pc |-> "idle", job |-> << >>, bytes |-> 0, out |-> None, rows |-> None,
               mtime |-> 0]
IdlePlanner == [pc |-> "idle", jobs |-> << >>]
IdleReader == [op |-> "none", id |-> None, todo |-> {}, found |-> {}, expect |-> FALSE,
               disturbed |-> FALSE]

TypeOK ==
    /\ DOMAIN dir \subseteq Names
    /\ \A n \in DOMAIN dir : dir[n] \in File
    /\ \A i \in DOMAIN queue : queue[i] \in Seq(Names)
    /\ queueMu \in Callers \cup {None}
    /\ planner \in [Planners -> [pc : {"idle", "checked", "enqueue", "stopped"}, jobs : Seq(Seq(Names))]]
    /\ worker \in [Workers -> [pc : {"idle", "poll", "wait", "name", "merge", "rename", "delete", "stopped"},
                               job : Seq(Names), bytes : Nat, out : Names \cup {None},
                               rows : [Ids -> Seq(1..MaxVersions)] \cup {None}, mtime : Nat]]
    /\ nextSeq \in Nat
    /\ window \in [ops : 0..MaxIOPS, bytes : 0..MaxBandwidth]
    /\ running \in BOOLEAN
    /\ \A r \in Readers : reader[r].todo \subseteq Names

Init ==
    /\ dir = [n \in {} |-> None]
    /\ queue = << >>
    /\ queueMu = None
    /\ planner = [p \in Planners |-> IdlePlanner]
    /\ worker = [w \in Workers |-> IdleWorker]
    /\ nextSeq = 0
    /\ window = [ops |-> 0, bytes |-> 0]
    /\ running = TRUE
    /\ reader = [r \in Readers |-> IdleReader]
    /\ now = 0
    /\ scheduled = 0
    /\ versions = 0
    /\ born = [id \in Ids |-> {}]
    /\ stops = 0
    /\ crashes = 0
    /\ losses = 0

-----------------------------------------------------------------------------
(* The directory.                                                          *)

Complete(n) == dir[n].state = "complete"

\* Glob of sstable-*.sst.
Visible == {n \in DOMAIN dir : n[1] = "sstable"}

\* The bytes of a file: every byte of every row.
Bytes(f) ==
    UNION {{id} \X UNION {{i} \X (1 .. RowLen[f.rows[id][i]]) : i \in DOMAIN f.rows[id]} : id \in Ids}
Size(f) == Cardinality(Bytes(f))

\* ListSSTables; files that NewReader rejects are skipped.
Infos ==
    {[name |-> n, size |-> Size(dir[n]), mtime |-> dir[n].mtime, old |-> dir[n].old]
        : n \in {m \in Visible : Complete(m)}}

With(n, f) == [m \in DOMAIN dir \cup {n} |-> IF m = n THEN f ELSE dir[m]]
Without(n) == [m \in DOMAIN dir \ {n} |-> dir[m]]

Max0(S) == Max(S \cup {0})

\* Some version of id can be found.
Findable(id) == \E n \in Visible : Complete(n) /\ dir[n].rows[id] # << >>

-----------------------------------------------------------------------------
(* The rest of the node: flushes and time.                                 *)

\* FlushMemtable creates a file named after the time; it has one new version
\* of some entities, or two of one entity.
FlushCreate(rows) ==
    /\ now' = now + 1
    /\ dir' = With(<<"sstable", now + 1>>,
                   [rows |-> rows, mtime |-> now + 1, old |-> FALSE,
                    state |-> "writing", settled |-> FALSE])
    /\ UNCHANGED <<queueMu, queue, planner, worker, nextSeq, window, running, reader, born, stops, crashes, losses, scheduled>>

FlushOne(ids) ==
    /\ versions < MaxVersions
    /\ versions' = versions + 1
    /\ FlushCreate([id \in Ids |-> IF id \in ids THEN <<versions + 1>> ELSE << >>])

FlushTwo(i) ==
    /\ versions + 1 < MaxVersions
    /\ versions' = versions + 2
    /\ FlushCreate([id \in Ids |-> IF id = i THEN <<versions + 1, versions + 2>> ELSE << >>])

RowsIn(rows) == {rows[i] : i \in DOMAIN rows}

\* writer.Close of a flush (one that failed never gets here).
FlushClose(n) ==
    /\ dir[n].state = "writing"
    /\ dir' = [dir EXCEPT ![n].state = "complete"]
    /\ born' = [id \in Ids |-> born[id] \cup RowsIn(dir[n].rows[id])]
    /\ UNCHANGED <<queueMu, queue, planner, worker, nextSeq, window, running, reader, now,
                   scheduled, versions, stops, crashes, losses>>

\* Another hour, and n is older than maxAge.
Ages(n) ==
    /\ ~dir[n].old
    /\ \A m \in DOMAIN dir : dir[m].mtime < dir[n].mtime => dir[m].old
    /\ dir' = [dir EXCEPT ![n].old = TRUE]
    /\ UNCHANGED <<queueMu, queue, planner, worker, nextSeq, window, running, reader, now,
                   scheduled, versions, born, stops, crashes, losses>>

-----------------------------------------------------------------------------
(* The scheduler.                                                          *)

\* TriggerCompaction sees the manager running; IsRunning waits while Stop has
\* runningMu.
TriggerCompaction(c) ==
    /\ running
    /\ queueMu # c
    /\ planner[c].pc = "idle"
    /\ planner' = [planner EXCEPT ![c].pc = "checked"]
    /\ UNCHANGED <<dir, queue, queueMu, worker, nextSeq, window, running, reader, now, scheduled,
                   versions, born, stops, crashes, losses>>

\* checkAndSchedule, from TriggerCompaction or at a tick of the scheduler (its
\* select may take the tick although stopCh is closed): one job per group of the
\* plan.  Nothing looks for a job that is queued or under way, and a caller that
\* saw the manager running may queue its jobs after Stop.
CheckAndSchedule(p) ==
    /\ planner[p].pc = IF p = Scheduler THEN "idle" ELSE "checked"
    /\ scheduled < MaxJobs
    /\ \E list \in SortedLists(Infos) :
          LET plans == PlanCompaction(list)
              jobs == [i \in DOMAIN plans |-> [k \in DOMAIN plans[i] |-> plans[i][k].name]]
          IN  /\ jobs # << >>
              /\ scheduled + Len(jobs) <= MaxJobs
              /\ scheduled' = scheduled + Len(jobs)
              /\ planner' = [planner EXCEPT ![p] = [pc |-> "enqueue", jobs |-> jobs]]
    /\ UNCHANGED <<dir, queue, queueMu, worker, nextSeq, window, running, reader, now, versions,
                   born, stops, crashes, losses>>

\* The plan of a caller is empty: TriggerCompaction returns.
NothingToDo(c) ==
    /\ planner[c].pc = "checked"
    /\ \E list \in SortedLists(Infos) : PlanCompaction(list) = << >>
    /\ planner' = [planner EXCEPT ![c] = IdlePlanner]
    /\ UNCHANGED <<dir, queue, queueMu, worker, nextSeq, window, running, reader, now, scheduled,
                   versions, born, stops, crashes, losses>>

\* enqueueJob, once for every job.
EnqueueJob(p) ==
    /\ planner[p].pc = "enqueue"
    /\ queueMu = None
    /\ queue' = Append(queue, Head(planner[p].jobs))
    /\ LET rest == Tail(planner[p].jobs)
       IN  planner' = [planner EXCEPT ![p] =
                          [pc |-> IF rest = << >> THEN "idle" ELSE "enqueue", jobs |-> rest]]
    /\ UNCHANGED <<dir, queueMu, worker, nextSeq, window, running, reader, now, scheduled,
                   versions, born, stops, crashes, losses>>

\* The scheduler's select sees stopCh closed.
SchedulerStops ==
    /\ ~running
    /\ planner[Scheduler].pc = "idle"
    /\ planner' = [planner EXCEPT ![Scheduler].pc = "stopped"]
    /\ UNCHANGED <<dir, queue, queueMu, worker, nextSeq, window, running, reader, now, scheduled,
                   versions, born, stops, crashes, losses>>

\* Stop takes runningMu, closes stopCh and waits for workerWg.
Stop ==
    /\ running
    /\ stops < MaxStops
    /\ stops' = stops + 1
    /\ running' = FALSE
    /\ UNCHANGED <<dir, queueMu, planner, queue, worker, nextSeq, window, reader, now, scheduled,
                   versions, born, crashes, losses>>

\* workerWg has the workers and the scheduler.
AllStopped ==
    /\ \A w \in Workers : worker[w].pc = "stopped"
    /\ planner[Scheduler].pc = "stopped"

\* Stop has runningMu until the last of them is gone.
Stopping == ~running /\ ~AllStopped

Start ==
    /\ ~running /\ ~Stopping
    /\ running' = TRUE
    /\ worker' = [w \in Workers |-> IdleWorker]
    /\ planner' = [planner EXCEPT ![Scheduler] = IdlePlanner]
    /\ UNCHANGED <<dir, queueMu, queue, nextSeq, window, reader, now, scheduled,
                   versions, born, stops, crashes, losses>>

\* GetStats takes jobQueueMu and, with it, runningMu.
GetStatsLocks(c) ==
    /\ planner[c].pc = "idle"
    /\ queueMu = None
    /\ queueMu' = c
    /\ UNCHANGED <<dir, queue, planner, worker, nextSeq, window, running, reader, now, scheduled,
                   versions, born, stops, crashes, losses>>

GetStatsReturns(c) ==
    /\ queueMu = c
    /\ ~Stopping
    /\ queueMu' = None
    /\ UNCHANGED <<dir, queue, planner, worker, nextSeq, window, running, reader, now, scheduled,
                   versions, born, stops, crashes, losses>>

-----------------------------------------------------------------------------
(* A worker.                                                               *)

\* Mutant: stopCh is not looked at.
PollsWhenStopped(w) ==
    /\ worker[w].pc = "idle"
    /\ worker' = [worker EXCEPT ![w].pc = "poll"]
    /\ UNCHANGED <<dir, queueMu, planner, queue, nextSeq, window, running, reader, now, scheduled,
                   versions, born, stops, crashes, losses>>

\* The select of the worker's loop, with stopCh still open.
WorkerPolls(w) ==
    /\ running
    /\ worker[w].pc = "idle"
    /\ worker' = [worker EXCEPT ![w].pc = "poll"]
    /\ UNCHANGED <<dir, queueMu, planner, queue, nextSeq, window, running, reader, now, scheduled,
                   versions, born, stops, crashes, losses>>

\* Twice the size of the files that are still there.
JobBytes(job) ==
    2 * Cardinality(UNION {{k} \X (IF job[k] \in DOMAIN dir THEN Bytes(dir[job[k]]) ELSE {})
                              : k \in DOMAIN job})

\* The queue is sorted by the number of files with an unstable sort: any job
\* with the highest number may come first.  Its bytes are counted at once.
DequeueJob(w) ==
    /\ worker[w].pc = "poll"
    /\ queueMu = None
    /\ \E i \in DOMAIN queue :
          /\ \A j \in DOMAIN queue : Len(queue[j]) <= Len(queue[i])
          /\ worker' = [worker EXCEPT ![w] = [@ EXCEPT !.pc = "wait", !.job = queue[i],
                                                      !.bytes = JobBytes(queue[i])]]
          /\ queue' = RemoveAt(queue, i)
    /\ UNCHANGED <<dir, queueMu, planner, nextSeq, window, running, reader, now, scheduled,
                   versions, born, stops, crashes, losses>>

QueueEmpty(w) ==
    /\ worker[w].pc = "poll"
    /\ queueMu = None
    /\ queue = << >>
    /\ worker' = [worker EXCEPT ![w].pc = "idle"]
    /\ UNCHANGED <<dir, queueMu, planner, queue, nextSeq, window, running, reader, now, scheduled,
                   versions, born, stops, crashes, losses>>

WorkerStops(w) ==
    /\ ~running
    /\ worker[w].pc = "idle"
    /\ worker' = [worker EXCEPT ![w].pc = "stopped"]
    /\ UNCHANGED <<dir, queueMu, planner, queue, nextSeq, window, running, reader, now, scheduled,
                   versions, born, stops, crashes, losses>>

\* Mutant: the limit on operations is off by one.
AllowOneMore(w) ==
    /\ worker[w].pc = "wait"
    /\ window.ops <= MaxIOPS
    /\ window.bytes + worker[w].bytes <= MaxBandwidth
    /\ window' = [ops |-> window.ops + 1, bytes |-> window.bytes + worker[w].bytes]
    /\ worker' = [worker EXCEPT ![w].pc = "name"]
    /\ UNCHANGED <<dir, queueMu, planner, queue, nextSeq, running, reader, now, scheduled,
                   versions, born, stops, crashes, losses>>

\* IOLimiter.Allow says yes.
Allow(w) ==
    /\ worker[w].pc = "wait"
    /\ window.ops < MaxIOPS
    /\ window.bytes + worker[w].bytes <= MaxBandwidth
    /\ window' = [ops |-> window.ops + 1, bytes |-> window.bytes + worker[w].bytes]
    /\ worker' = [worker EXCEPT ![w].pc = "name"]
    /\ UNCHANGED <<dir, queueMu, planner, queue, nextSeq, running, reader, now, scheduled,
                   versions, born, stops, crashes, losses>>

\* Mutant: the byte counter is not cleared.
ResetOpsOnly ==
    /\ window # [ops |-> 0, bytes |-> 0]
    /\ window' = [window EXCEPT !.ops = 0]
    /\ UNCHANGED <<dir, queueMu, planner, queue, worker, nextSeq, running, reader, now, scheduled,
                   versions, born, stops, crashes, losses>>

\* A second has passed: Allow starts a new window.
WindowReset ==
    /\ window # [ops |-> 0, bytes |-> 0]
    /\ window' = [ops |-> 0, bytes |-> 0]
    /\ UNCHANGED <<dir, queueMu, planner, queue, worker, nextSeq, running, reader, now, scheduled,
                   versions, born, stops, crashes, losses>>

\* One more than every number in use under ExecPrefix, the inputs included.
OutputSeq(job) ==
    LET used == {n[2] + 1 : n \in {m \in DOMAIN dir \cup RowsIn(job) : m[1] = ExecPrefix}}
    IN  Max(used \cup {nextSeq})

\* Mutant: nextSeq does not move on.
NamesTwice(w) ==
    /\ worker[w].pc = "name"
    /\ LET seq == OutputSeq(worker[w].job)
       IN  /\ worker' = [worker EXCEPT ![w] = [@ EXCEPT !.pc = "merge", !.out = <<ExecPrefix, seq>>]]
           /\ now' = Max({now, seq})
    /\ UNCHANGED <<dir, queueMu, planner, queue, nextSeq, window, running, reader, scheduled, versions,
                   born, stops, crashes, losses>>

ChooseName(w) ==
    /\ worker[w].pc = "name"
    /\ LET seq == OutputSeq(worker[w].job)
       IN  /\ worker' = [worker EXCEPT ![w] = [@ EXCEPT !.pc = "merge", !.out = <<ExecPrefix, seq>>]]
           /\ nextSeq' = seq + 1
           /\ now' = Max({now, seq})
    /\ UNCHANGED <<dir, queueMu, planner, queue, window, running, reader, scheduled, versions,
                   born, stops, crashes, losses>>

Done(w) == worker' = [worker EXCEPT ![w] = IdleWorker]

\* Mutant: the first row is taken, however long it is.
FirstRow(rows) == rows[1]

\* selectBestRow: the first of the longest rows.
SelectBestRow(rows) ==
    rows[CHOOSE i \in DOMAIN rows :
            /\ \A j \in DOMAIN rows : RowLen[rows[j]] <= RowLen[rows[i]]
            /\ \A j \in 1..(i - 1) : RowLen[rows[j]] < RowLen[rows[i]]]

\* The rows of an entity, last input first, each file's in their own order.
AllRows(job, id) ==
    FlattenSeq([k \in DOMAIN job |-> dir[job[Len(job) + 1 - k]].rows[id]])

Merged(job) ==
    [id \in Ids |-> LET rows == AllRows(job, id)
                    IN  IF rows = << >> THEN << >> ELSE <<SelectBestRow(rows)>>]

\* All inputs are read and merged into a temporary file, which is closed and keeps
\* the time of this write.  An input that is gone, or invalid, is an error.
Merge(w) ==
    /\ worker[w].pc = "merge"
    /\ LET job == worker[w].job
       IN  /\ \A n \in RowsIn(job) : n \in DOMAIN dir /\ Complete(n)
           /\ worker' = [worker EXCEPT ![w] = [@ EXCEPT !.pc = "rename", !.rows = Merged(job),
                                                          !.mtime = now + 1]]
    /\ now' = now + 1
    /\ UNCHANGED <<dir, queueMu, planner, queue, nextSeq, window, running, reader, scheduled,
                   versions, born, stops, crashes, losses>>

\* Any error up to the rename ends the job and leaves the inputs alone.
CompactFails(w) ==
    /\ worker[w].pc \in {"merge", "rename"}
    /\ Done(w)
    /\ UNCHANGED <<dir, queueMu, planner, queue, nextSeq, window, running, reader, now, scheduled,
                   versions, born, stops, crashes, losses>>

Rename(w) ==
    /\ worker[w].pc = "rename"
    /\ dir' = With(worker[w].out,
                   [rows |-> worker[w].rows, mtime |-> worker[w].mtime, old |-> FALSE,
                    state |-> "complete", settled |-> FALSE])
    /\ worker' = [worker EXCEPT ![w].pc = "delete"]
    /\ UNCHANGED <<queueMu, queue, planner, nextSeq, window, running, reader, now, scheduled, versions,
                   born, stops, crashes, losses>>

\* os.Remove of the next input; an error is ignored.
Delete(w) ==
    /\ worker[w].pc = "delete"
    /\ worker[w].job # << >>
    /\ LET n == Head(worker[w].job)
       IN  /\ dir' \in {dir, Without(n)}
           /\ reader' = [r \in Readers |->
                 IF n \in reader[r].todo /\ n \notin DOMAIN dir'
                 THEN [reader[r] EXCEPT !.disturbed = TRUE] ELSE reader[r]]
    /\ worker' = [worker EXCEPT ![w].job = Tail(@)]
    /\ UNCHANGED <<queueMu, queue, planner, nextSeq, window, running, now, scheduled, versions,
                   born, stops, crashes, losses>>

CompactReturns(w) ==
    /\ worker[w].pc = "delete"
    /\ worker[w].job = << >>
    /\ Done(w)
    /\ UNCHANGED <<dir, queueMu, planner, queue, nextSeq, window, running, reader, now, scheduled,
                   versions, born, stops, crashes, losses>>

-----------------------------------------------------------------------------
(* A reader: Glob, then the files from the highest name to the lowest.     *)

ReaderList(r, id) ==
    /\ reader[r].op = "none"
    /\ reader' = [reader EXCEPT ![r] =
            [op |-> "reading", id |-> id, todo |-> Visible, found |-> {},
             expect |-> Findable(id), disturbed |-> FALSE]]
    /\ UNCHANGED <<dir, queueMu, planner, queue, worker, nextSeq, window, running, now, scheduled,
                   versions, born, stops, crashes, losses>>

LastOf(rows) == IF rows = << >> THEN {} ELSE {Last(rows)}

\* Mutant: a file that cannot be read ends the loop.
StopsAtBadFile(r) ==
    /\ reader[r].op = "reading"
    /\ reader[r].todo # {}
    /\ LET n == CHOOSE m \in reader[r].todo : \A o \in reader[r].todo : o[2] <= m[2]
           rows == IF n \in DOMAIN dir /\ Complete(n) THEN dir[n].rows[reader[r].id] ELSE << >>
       IN  reader' = [reader EXCEPT ![r].todo = IF n \in DOMAIN dir /\ Complete(n) THEN @ \ {n} ELSE {},
                                    ![r].found = @ \cup LastOf(rows)]
    /\ UNCHANGED <<dir, queueMu, planner, queue, worker, nextSeq, window, running, now, scheduled,
                   versions, born, stops, crashes, losses>>

\* A file that is gone or invalid is skipped; of the others the last row counts.
ReaderNext(r) ==
    /\ reader[r].op = "reading"
    /\ reader[r].todo # {}
    /\ LET n == CHOOSE m \in reader[r].todo : \A o \in reader[r].todo : o[2] <= m[2]
           rows == IF n \in DOMAIN dir /\ Complete(n) THEN dir[n].rows[reader[r].id] ELSE << >>
       IN  reader' = [reader EXCEPT ![r].todo = @ \ {n}, ![r].found = @ \cup LastOf(rows)]
    /\ UNCHANGED <<dir, queueMu, planner, queue, worker, nextSeq, window, running, now, scheduled,
                   versions, born, stops, crashes, losses>>

ReaderReturns(r) ==
    /\ reader[r].op = "reading"
    /\ reader[r].todo = {}
    /\ reader' = [reader EXCEPT ![r] = IdleReader]
    /\ UNCHANGED <<dir, queueMu, planner, queue, worker, nextSeq, window, running, now, scheduled,
                   versions, born, stops, crashes, losses>>

-----------------------------------------------------------------------------
(* Crashes; the new process starts with NewManager and Start.              *)

Reborn ==
    /\ queue' = << >>
    /\ queueMu' = None
    /\ planner' = [p \in Planners |-> IdlePlanner]
    /\ worker' = [w \in Workers |-> IdleWorker]
    /\ nextSeq' = Max0({n[2] + 1 : n \in {m \in DOMAIN dir : m[1] = ExecPrefix}})
    /\ window' = [ops |-> 0, bytes |-> 0]
    /\ running' = TRUE
    /\ reader' = [r \in Readers |-> IdleReader]
    /\ UNCHANGED <<now, scheduled, versions, born, stops>>

Crash ==
    /\ crashes < MaxCrashes
    /\ crashes' = crashes + 1
    /\ dir' = [n \in DOMAIN dir |->
                 IF Complete(n) THEN dir[n] ELSE [dir[n] EXCEPT !.state = "broken"]]
    /\ Reborn
    /\ UNCHANGED losses

\* Nothing in the code syncs a file: those that the kernel has not written back
\* by now, any of the new ones, are spoilt by a power loss.
PowerLoss ==
    /\ losses < MaxPowerLosses
    /\ losses' = losses + 1
    /\ \E spoilt \in SUBSET {n \in DOMAIN dir : ~dir[n].settled} :
          dir' = [n \in DOMAIN dir |->
                     IF n \in spoilt \/ ~Complete(n)
                     THEN [dir[n] EXCEPT !.state = "broken", !.settled = TRUE]
                     ELSE [dir[n] EXCEPT !.settled = TRUE]]
    /\ Reborn
    /\ UNCHANGED crashes

-----------------------------------------------------------------------------
Worker(w) ==
    \/ Allow(w) \/ ChooseName(w) \/ Merge(w) \/ CompactFails(w) \/ Rename(w)
    \/ Delete(w) \/ CompactReturns(w)

Reader(r) == (\E id \in Ids : ReaderList(r, id)) \/ ReaderNext(r) \/ ReaderReturns(r)

Environment ==
    \/ \E ids \in SUBSET Ids \ {{}} : FlushOne(ids)
    \/ \E id \in Ids : FlushTwo(id)
    \/ \E n \in DOMAIN dir : FlushClose(n) \/ Ages(n)

Next ==
    \/ Environment
    \/ \E p \in Planners : CheckAndSchedule(p) \/ EnqueueJob(p)
    \/ SchedulerStops \/ Stop \/ Start \/ WindowReset
    \/ \E c \in Callers :
          TriggerCompaction(c) \/ NothingToDo(c) \/ GetStatsLocks(c) \/ GetStatsReturns(c)
    \/ \E w \in Workers :
          WorkerPolls(w) \/ DequeueJob(w) \/ QueueEmpty(w) \/ WorkerStops(w) \/ Worker(w)
    \/ \E r \in Readers : Reader(r)
    \/ Crash \/ PowerLoss

Spec == Init /\ [][Next]_vars

\* Goroutines run, seconds pass.
Fairness ==
    /\ WF_vars(WindowReset)
    /\ \A c \in Callers : WF_vars(GetStatsReturns(c))
    /\ SF_vars(EnqueueJob(Scheduler))
    /\ SF_vars(SchedulerStops)
    /\ \A w \in Workers :
          /\ WF_vars(WorkerPolls(w) \/ WorkerStops(w))
          /\ SF_vars(DequeueJob(w) \/ QueueEmpty(w))
          /\ SF_vars(Allow(w))
          /\ WF_vars(ChooseName(w) \/ Merge(w) \/ CompactFails(w) \/ Rename(w)
                     \/ Delete(w) \/ CompactReturns(w))

FairSpec == Spec /\ Fairness

-----------------------------------------------------------------------------
(* Properties.                                                             *)

\* An entity with a row in a complete SSTable never disappears from the files
\* that readers look at.
EntityKept == \A id \in Ids : born[id] # {} => Findable(id)

\* The length of the longest row of an entity that is in a complete SSTable,
\* under any prefix, as module VersionStore has it.
Longest == [id \in Ids |->
    Max0({RowLen[v] : v \in UNION {RowsIn(dir[n].rows[id]) : n \in {m \in DOMAIN dir : Complete(m)}}})]
Abstract == INSTANCE VersionStore WITH stored <- born, best <- Longest, Rank <- RowLen

\* The files implement VersionStore: what a flush has closed is there, and every
\* step of a compaction is a stutter, so that the row with the most data (the one
\* selectBestRow prefers) is not lost when two workers have jobs with the same
\* files, when a job fails half-way, when a delete fails, when the process is
\* killed between rename and delete, or in a directory that a power loss has
\* left with spoilt files.  It holds for rows of any lengths and for any prefix.
StoreRefined == Abstract!Spec

\* Compaction "keeps newest": the newest version of an entity that a flush has
\* closed is in some complete SSTable, unless the power failed.
NewestKept ==
    losses = 0 => \A id \in Ids : \A v \in born[id] :
        \E n \in DOMAIN dir : Complete(n) /\ \E u \in RowsIn(dir[n].rows[id]) : v <= u

\* A complete SSTable never changes: no rename hits a name in use, although
\* names are chosen long before the rename and by several workers.
TablesImmutable ==
    [][\A n \in DOMAIN dir \cap DOMAIN dir' : Complete(n) => dir'[n].rows = dir[n].rows]_vars

\* A reader that no delete disturbs finds an entity that was there when it
\* listed the directory, whatever is flushed, renamed or spoilt meanwhile.
ReaderFindsUndisturbed ==
    \A r \in Readers :
        reader[r].op = "reading" /\ reader[r].todo = {} /\ reader[r].expect
            => reader[r].found # {} \/ reader[r].disturbed

\* The old SSTables are swapped with the new one "atomically": every reader finds
\* an entity that was there when it listed the directory.
ReaderFinds ==
    \A r \in Readers :
        reader[r].op = "reading" /\ reader[r].todo = {} /\ reader[r].expect => reader[r].found # {}

\* A worker holds a job that is larger than the limiter's window: twice the
\* size of its files is more than MaxBandwidth.
Oversize(w) == worker[w].bytes > MaxBandwidth

\* Every job that a worker has taken ends, with failures, deletes by the other
\* worker and a limiter that is shared, unless it is larger than the window.
JobEnds ==
    \A w \in Workers :
        worker[w].pc = "wait" /\ ~Oversize(w) ~> worker[w].pc \in {"idle", "stopped"}

\* GetStats holds jobQueueMu while a worker on its way to dequeueJob, or the
\* scheduler on its way to enqueueJob, needs it.
Blocked ==
    /\ queueMu # None
    /\ (\E w \in Workers : worker[w].pc = "poll") \/ planner[Scheduler].pc = "enqueue"

\* Stop returns (running becomes true again only by a later Start or a new
\* process): workers and scheduler end, unless a worker waits for the limiter with
\* an oversize job, or a worker or the scheduler for jobQueueMu, which GetStats
\* holds while it waits for Stop.
StopReturns ==
    ~running ~> \/ running
                \/ AllStopped
                \/ Blocked
                \/ \E w \in Workers : Oversize(w)
=============================================================================
