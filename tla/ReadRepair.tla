----------------------------- MODULE ReadRepair -----------------------------
(***************************************************************************)
(* Quorum reads (Coordinator.Read and ReadWithResponses), the detector     *)
(* that schedules a repair when the answers differ, and the scheduler and  *)
(* executor of read repair (core/cluster/repair), next to the writes of    *)
(* Coordinator and the hints of Handoff. This is the composed cluster: its *)
(* Next has the steps of all three.                                        *)
(***************************************************************************)
EXTENDS Handoff

CONSTANTS
    Readers,       \* goroutines that read
    Workers,       \* repair workers, MaxConcurrent of them
    StatsCallers,  \* goroutines that call Scheduler.GetStats
    MaxRate        \* repairs in a window of the rate limiter

ASSUME RepairAssumption == MaxRate \in Nat

VARIABLES
    read,     \* read[r]: the local variables of a read
    queue,    \* Scheduler.taskQueue; all tasks have PriorityNormal
    worker,   \* worker[w]: where a worker is, and its task
    ops,      \* RateLimiter.opsCount
    sched,    \* "running", "stopping" while Stop holds runningMu, "stopped"
    stats,    \* stats[s]: "idle", or "held" with mu and waiting for runningMu
    solo,     \* clients whose write of a key has had the key to itself so far
    acked,    \* acked[k]: the value of the last such write with a quorum, until the next one
    mixed     \* requests have overlapped, and one of them had a level of its own

repairVars == << queue, worker, ops, sched, stats >>
ghostVars == << solo, acked, mixed >>
vars == << coordVars, handoffVars, read, repairVars, ghostVars >>

NoTask == [key |-> NoValue, val |-> NoValue, targets |-> {}]
NoRead == [pc |-> "idle", key |-> NoValue, sent |-> {}, wait |-> {},
           resp |-> {}, got |-> 0, expect |-> NoValue]
Off == [pc |-> "idle", task |-> NoTask]

TypeOK ==
    /\ HandoffTypeOK
    /\ \A r \in Readers : /\ read[r].pc \in {"idle", "send", "check"}
                          /\ read[r].wait \subseteq read[r].sent
                          /\ \A a \in read[r].resp : a.node \in read[r].sent \ read[r].wait
    /\ \A i \in DOMAIN queue : queue[i].val \in Values /\ queue[i].targets \subseteq Nodes
    /\ \A w \in Workers : worker[w].pc \in {"idle", "queue", "rate", "write", "ended"}
    /\ ops \in 0 .. MaxRate
    /\ sched \in {"running", "stopping", "stopped"}
    /\ stats \in [StatsCallers -> {"idle", "held"}]
    /\ solo \subseteq Clients
    /\ acked \in [Keys -> Values \cup {NoValue}]
    /\ mixed \in BOOLEAN

Init ==
    /\ HandoffInit
    /\ read = [r \in Readers |-> NoRead]
    /\ queue = << >> /\ ops = 0 /\ sched = "running"
    /\ worker = [w \in Workers |-> Off]
    /\ stats = [s \in StatsCallers |-> "idle"]
    /\ solo = {} /\ acked = [k \in Keys |-> NoValue] /\ mixed = FALSE

-----------------------------------------------------------------------------
(* Quorum reads.                                                           *)

Mu == \E s \in StatsCallers : stats[s] = "held"    \* GetStats holds Scheduler.mu
OnKey(k) == {c \in Callers : call[c].pc # "idle" /\ call[c].key = k}

\* ReadWithResponses: the alive replicas, if there are enough of them, are
\* asked in parallel.
ReadWithResponses(r, k) ==
    /\ read[r].pc = "idle"
    /\ Spend("reads")
    /\ SelectReplicas(k) # << >> /\ Cardinality(AliveReplicas(k)) >= cfg.rq
    /\ read' = [read EXCEPT ![r] = [NoRead EXCEPT !.pc = "send", !.key = k, !.expect = acked[k],
                                    !.sent = AliveReplicas(k), !.wait = AliveReplicas(k)]]
    /\ solo' = solo \ OnKey(k)
    /\ UNCHANGED << cfg, alive, data, call, written, handoffVars, repairVars, acked, mixed >>

\* One goroutine of readFromReplicas: an answer, or an error.
ReplicaRead(r, n) ==
    /\ read[r].pc = "send" /\ n \in read[r].wait
    /\ \/ /\ read' = [read EXCEPT ![r].wait = @ \ {n},
                               ![r].resp = @ \cup {[node |-> n, val |-> data[n][read[r].key]]}]
          /\ UNCHANGED budget
       \/ read' = [read EXCEPT ![r].wait = @ \ {n}] /\ Spend("faults")
    /\ UNCHANGED << cfg, alive, data, call, written, handoffVars, repairVars, ghostVars >>

\* waitForQuorum, and then the comparison with the quorum of that moment.
ReadQuorum(r) ==
    /\ read[r].pc = "send" /\ read[r].wait = {}
    /\ read' = [read EXCEPT ![r].pc = "check",
          ![r].got = Lesser(Cardinality(read[r].resp), cfg.rq)]
    /\ UNCHANGED << coordVars, handoffVars, repairVars, ghostVars >>

\* The answers by value; a nil value is in no group.
Group(r, v) == {a.node : a \in {b \in read[r].resp : b.val = v}}
Answered(r) == {v \in Values : Group(r, v) # {}}

\* mergeReadResponses: a value with the most answers, any of them on a tie.
MergeReadResponses(r) ==
    {v \in Answered(r) : \A u \in Answered(r) : Cardinality(Group(r, u)) <= Cardinality(Group(r, v))}

\* findMajorityValue: more than half of all answers, errors included.
MajorityValue(r) ==
    {v \in MergeReadResponses(r) : Cardinality(Group(r, v)) > Cardinality(read[r].sent) \div 2}

\* CheckReadResponses: the repair to schedule, if there is one.
Repairs(r) ==
    IF Cardinality(read[r].sent) < 2 \/ Cardinality(Answered(r)) <= 1 THEN {}
    ELSE {[key |-> read[r].key, val |-> v,
           targets |-> UNION {Group(r, u) : u \in Answered(r) \ {v}}] : v \in MajorityValue(r)}

\* The read returns: without a quorum an error, otherwise the answers, which
\* CoordinatorWithRepair shows to the detector and ScheduleRepair queues.
ReadReturns(r) ==
    /\ read[r].pc = "check"
    /\ read' = [read EXCEPT ![r] = NoRead]
    /\ IF read[r].got < cfg.rq \/ Repairs(r) = {}
       THEN UNCHANGED queue
       ELSE ~Mu /\ \E t \in Repairs(r) : queue' = Append(queue, t)
    /\ UNCHANGED << coordVars, handoffVars, worker, ops, sched, stats, ghostVars >>

-----------------------------------------------------------------------------
(* The scheduler and the executor of repairs.                              *)

\* Mutant: the worker does not look at the signal to stop.
TurnsForever(w) ==
    /\ worker[w].pc = "idle"
    /\ queue # << >> \/ Mu \/ sched # "running"
    /\ worker' = [worker EXCEPT ![w].pc = "queue"]
    /\ UNCHANGED << coordVars, handoffVars, read, queue, ops, sched, stats, ghostVars >>

\* A turn of the worker: the signal to stop, or on into dequeueTask. A turn
\* that would find the mutex free and the queue empty changes nothing.
WorkerTurn(w) ==
    /\ worker[w].pc = "idle"
    /\ queue # << >> \/ Mu \/ sched # "running"
    /\ worker' = [worker EXCEPT ![w].pc = IF sched = "running" THEN "queue" ELSE "ended"]
    /\ UNCHANGED << coordVars, handoffVars, read, queue, ops, sched, stats, ghostVars >>

\* Mutant: a queue with one task counts as empty.
LeavesOne(w) ==
    /\ worker[w].pc = "queue" /\ ~Mu
    /\ IF Len(queue) <= 1
       THEN worker' = [worker EXCEPT ![w] = Off] /\ UNCHANGED queue
       ELSE /\ worker' = [worker EXCEPT ![w] = [pc |-> "rate", task |-> Head(queue)]]
            /\ queue' = Tail(queue)
    /\ UNCHANGED << coordVars, handoffVars, read, ops, sched, stats, ghostVars >>

\* dequeueTask, under the mutex; with an empty queue the worker sleeps and
\* turns again.
Dequeue(w) ==
    /\ worker[w].pc = "queue" /\ ~Mu
    /\ IF queue = << >>
       THEN worker' = [worker EXCEPT ![w] = Off] /\ UNCHANGED queue
       ELSE /\ worker' = [worker EXCEPT ![w] = [pc |-> "rate", task |-> Head(queue)]]
            /\ queue' = Tail(queue)
    /\ UNCHANGED << coordVars, handoffVars, read, ops, sched, stats, ghostVars >>

\* RateLimiter.Wait; a new window resets the count.
RateAllow(w) ==
    /\ worker[w].pc = "rate" /\ ops < MaxRate
    /\ ops' = ops + 1
    /\ worker' = [worker EXCEPT ![w].pc = "write"]
    /\ UNCHANGED << coordVars, handoffVars, read, queue, sched, stats, ghostVars >>

WindowEnds ==
    /\ ops > 0
    /\ ops' = 0
    /\ UNCHANGED << coordVars, handoffVars, read, queue, worker, sched, stats, ghostVars >>

\* ExecuteRepair: the targets one after the other; errors are only counted.
RepairWrite(w, n) ==
    /\ worker[w].pc = "write" /\ n \in worker[w].task.targets
    /\ \/ data' = [data EXCEPT ![n][worker[w].task.key] = worker[w].task.val] /\ UNCHANGED budget
       \/ UNCHANGED data /\ Spend("faults")
    /\ worker' = [worker EXCEPT ![w].task.targets = @ \ {n}]
    /\ UNCHANGED << cfg, alive, call, written, handoffVars, read, queue, ops, sched, stats, ghostVars >>

RepairDone(w) ==
    /\ worker[w].pc = "write" /\ worker[w].task.targets = {}
    /\ worker' = [worker EXCEPT ![w] = Off]
    /\ UNCHANGED << coordVars, handoffVars, read, queue, ops, sched, stats, ghostVars >>

\* Stop takes runningMu and keeps it until every worker has returned.
StopScheduler ==
    /\ sched = "running"
    /\ Spend("schedStops")
    /\ sched' = "stopping"
    /\ UNCHANGED << cfg, alive, data, call, written, handoffVars, read, queue, worker, ops, stats, ghostVars >>

SchedulerStopped ==
    /\ sched = "stopping" /\ \A w \in Workers : worker[w].pc = "ended"
    /\ sched' = "stopped"
    /\ UNCHANGED << coordVars, handoffVars, read, queue, worker, ops, stats, ghostVars >>

StartScheduler ==
    /\ sched = "stopped"
    /\ sched' = "running"
    /\ worker' = [w \in Workers |-> Off]
    /\ UNCHANGED << coordVars, handoffVars, read, queue, ops, stats, ghostVars >>

\* GetStats takes mu and asks IsRunning, which needs runningMu.
StatsBegin(s) ==
    /\ stats[s] = "idle"
    /\ Spend("stats")
    /\ stats' = [stats EXCEPT ![s] = "held"]
    /\ UNCHANGED << cfg, alive, data, call, written, handoffVars, read, queue, worker, ops, sched, ghostVars >>

StatsEnd(s) ==
    /\ stats[s] = "held" /\ sched # "stopping"
    /\ stats' = [stats EXCEPT ![s] = "idle"]
    /\ UNCHANGED << coordVars, handoffVars, read, queue, worker, ops, sched, ghostVars >>

-----------------------------------------------------------------------------
(* The cluster.                                                            *)

\* Nothing that may write k is under way: no call, read, repair or hint, and no
\* hint that is left in the file, which a restart would bring back.
QuietKey(k) ==
    /\ OnKey(k) = {}
    /\ \A r \in Readers : read[r].pc = "idle" \/ read[r].key # k
    /\ \A i \in DOMAIN queue : queue[i].key # k
    /\ \A w \in Workers : worker[w].task.key # k
    /\ \A n \in Nodes : \A i \in DOMAIN hints[n] : hints[n][i].key # k
    /\ \A i \in DOMAIN file : file[i] # Hole => file[i].hint.key # k
    /\ \A r \in Replayers : \A i \in DOMAIN replay[r].left : replay[r].left[i].key # k

\* A request begins: it has the key to itself if nothing else is under way.
BeginPut(c, l, n, k, v) ==
    /\ PutEntity(c, l, n, k, v)
    /\ solo' = IF QuietKey(k) THEN solo \cup {c} ELSE solo \ OnKey(k)
    /\ acked' = [acked EXCEPT ![k] = NoValue]
    /\ mixed' = (mixed \/ \E d \in Clients : call[d].pc # "idle" /\ {l, call[d].level} # {"QUORUM"})
    /\ UNCHANGED << handoffVars, read, repairVars >>

\* A request ends, or goes on with the next entity of its batch.
EndPut(c) ==
    /\ RestoreConfig(c)
    /\ solo' = solo \ ({c} \cup IF call'[c].pc = "save" THEN OnKey(call'[c].key) ELSE {})
    /\ acked' = [k \in Keys |->
          IF call'[c].pc = "save" /\ call'[c].key = k THEN NoValue
          ELSE IF /\ k = call[c].key /\ c \in solo /\ ~mixed
                  /\ call[c].res /\ Promised(call[c].level) >= Quorum
               THEN call[c].val
          ELSE acked[k]]
    /\ UNCHANGED << handoffVars, read, repairVars, mixed >>

\* The steps of the other modules, which leave the repairs alone.
ClientNext ==
    /\ \/ \E c \in Clients : SaveConfig(c) \/ UpdateConfig(c) \/ WrapWrite(c) \/ HintsStored(c)
       \/ \E c \in Callers : WriteStep(c)
       \/ \E n \in Nodes : AliveChanges(n)
    /\ UNCHANGED << handoffVars, read, repairVars, ghostVars >>

HandoffNext ==
    /\ \/ \E c \in Clients : StoreHint(c)
       \/ Cleanup
       \/ \E f \in Flushers : FlushStep(f) \/ FlushFail(f)
       \/ \E l \in Loops : LoopStep(l) \/ Start(l)
       \/ \E r \in Replayers : ReplayStep(r) \/ \E n \in Nodes : TriggerReplay(r, n)
       \/ Stop \/ StopReturns
    /\ UNCHANGED << read, repairVars, ghostVars >>

\* The process dies; the queue and the workers of the scheduler are new.
Crash ==
    /\ Restart
    /\ read' = [r \in Readers |-> NoRead]
    /\ queue' = << >> /\ ops' = 0 /\ sched' = "running"
    /\ worker' = [w \in Workers |-> Off]
    /\ stats' = [s \in StatsCallers |-> "idle"]
    /\ solo' = {} /\ mixed' = FALSE
    /\ UNCHANGED acked

ReadStep(r) == ReadQuorum(r) \/ ReadReturns(r) \/ \E n \in Nodes : ReplicaRead(r, n)

WorkerStep(w) ==
    \/ WorkerTurn(w)
    \/ Dequeue(w)
    \/ RateAllow(w)
    \/ \E n \in Nodes : RepairWrite(w, n)
    \/ RepairDone(w)

RepairNext ==
    \/ \E r \in Readers : ReadStep(r) \/ \E k \in Keys : ReadWithResponses(r, k)
    \/ \E w \in Workers : WorkerStep(w)
    \/ WindowEnds
    \/ StopScheduler \/ SchedulerStopped \/ StartScheduler
    \/ \E s \in StatsCallers : StatsBegin(s) \/ StatsEnd(s)

Next ==
    \/ \E c \in Clients, l \in Levels, n \in 1 .. MaxBatch, k \in Keys, v \in Values : BeginPut(c, l, n, k, v)
    \/ \E c \in Clients : EndPut(c)
    \/ ClientNext
    \/ HandoffNext
    \/ Crash
    \/ RepairNext

Spec == Init /\ [][Next]_vars

\* Goroutines that can go on do so; writes and reads of replicas return (their
\* context has a deadline), and windows of the rate limiter end.
Fairness ==
    LET Others == UNCHANGED << read, repairVars, ghostVars >> IN
    /\ \A r \in Replayers : WF_vars(WriteStep(r) /\ UNCHANGED handoffVars /\ Others)
    /\ \A r \in Replayers : WF_vars(ReplayStep(r) /\ Others)
    /\ \A f \in Flushers : WF_vars(FlushStep(f) /\ Others)
    /\ \A w \in Workers : WF_vars(WorkerStep(w))
    /\ WF_vars(WindowEnds)
    /\ WF_vars(SchedulerStopped)
    /\ \A s \in StatsCallers : WF_vars(StatsEnd(s))

FairSpec == Spec /\ Fairness

\* Also the handlers, and the loop of the dispatcher as long as it is there.
HandoffFairness ==
    LET Others == UNCHANGED << read, repairVars, ghostVars >> IN
    /\ \A l \in Loops : WF_vars(LoopStep(l) /\ Others)
    /\ \A c \in Clients :
          /\ WF_vars(EndPut(c))
          /\ WF_vars(StoreHint(c) /\ Others)
          /\ WF_vars((SaveConfig(c) \/ UpdateConfig(c) \/ WrapWrite(c) \/ HintsStored(c) \/ WriteStep(c))
                     /\ UNCHANGED handoffVars /\ Others)

HandoffFairSpec == FairSpec /\ HandoffFairness

-----------------------------------------------------------------------------
(* Properties.                                                             *)

\* server.go overrides the quorums of the shared coordinator for the time of a
\* write: as long as no request with a level of its own has overlapped another,
\* a write that is about to be acknowledged was taken by as many replicas as its
\* level promises, whatever gossip and the replicas did meanwhile.
AckedTookQuorum ==
    \A c \in Clients :
        ~mixed /\ call[c].pc = "done" /\ call[c].res =>
            Cardinality(call[c].took) >= Promised(call[c].level)

\* server.go says of the swap "Temporarily update coordinator config": with no
\* request under way the quorums are those the daemon started with, unless such
\* requests have overlapped; then a restore may bring back an override for good.
OverrideIsTemporary ==
    ~mixed /\ (\A c \in Clients : call[c].pc = "idle") => cfg = DefaultConfig

\* The same of all requests, those that overlap included.
ConfigIsRestored == (\A c \in Clients : call[c].pc = "idle") => cfg = DefaultConfig

\* store.go keeps totalSize by hand in StoreHint, RemoveHint, cleanup and
\* load: it is the size of the hints that are there, and within MaxSize.
SizeAccounts == total = HintCount(hints) /\ total <= MaxHints

\* hints.db is rewritten in the background (store.go, flush): when all flushes
\* are over, and the last one had the file to itself and met no error, loading
\* the file gives the hints of the store.
QuietFileLoads ==
    ~Locked /\ pending = 0 /\ sound => Loaded(file, expired) = hints

\* dispatcher.go, replaying: never two replays of one node at a time, whoever
\* started them.
ReplayExclusive ==
    \A r, s \in Replayers :
        /\ {replay[r].pc, replay[s].pc} \subseteq {"hints", "write", "remove", "unmark"}
        /\ replay[r].node = replay[s].node
        => r = s

\* The three together: the books of the hint store, its file and its replays.
HandoffSound == SizeAccounts /\ QuietFileLoads /\ ReplayExclusive

\* coordinator.go and detector.go: a write that had its key to itself and was
\* acknowledged at QUORUM or ALL stays on a quorum of the replicas until the
\* next write of the key, whatever fails, is read, repaired or replayed. This is
\* so for up to four replicas; MajorityIsCorrect is what fails with five.
AckedHeld ==
    \A k \in Keys :
        acked[k] # NoValue =>
            Cardinality({n \in SeqToSet(SelectReplicas(k)) : data[n][k] = acked[k]}) >= Quorum

\* detector.go, CheckReadResponses, "Find the majority value (correct value)": a
\* repair of a key whose last write is acknowledged carries the value of it.
MajorityIsCorrect ==
    \A i \in DOMAIN queue : acked[queue[i].key] \in {NoValue, queue[i].val}

\* Reads and writes meet: a read that began after such a write was acknowledged
\* and got a quorum of answers has the value among them.
QuorumReadMeets ==
    \A r \in Readers :
        /\ read[r].pc = "check" /\ Cardinality(read[r].resp) >= Quorum
        /\ read[r].expect # NoValue /\ acked[read[r].key] = read[r].expect
        => read[r].expect \in Answered(r)

\* Of answers that differ the newest is to win: such a read returns the value of
\* the last acknowledged write, whichever of its answers it merges.
ReadReturnsNewest ==
    \A r \in Readers :
        /\ read[r].pc = "check" /\ Cardinality(read[r].resp) >= Quorum
        /\ read[r].expect # NoValue /\ acked[read[r].key] = read[r].expect
        => MergeReadResponses(r) = {read[r].expect}

\* A replay, of the loop or triggered, comes to its end and the node can be
\* replayed again, although writes fail and flushes hold the lock of the store.
ReplayEnds == \A n \in Nodes : n \in replaying ~> n \notin replaying

\* scheduler.go, Stop: it waits for its workers under runningMu, and hangs only
\* if a GetStats that waits for runningMu keeps the workers from their queue.
StopHangsOnlyOnStats == <>[](sched = "stopping") => <>[]Mu

\* A repair that was scheduled is taken up, as long as the scheduler runs and
\* nobody holds its mutex for good.
RepairsRun == (queue # << >>) ~> (queue = << >> \/ sched # "running" \/ Mu)

\* The dispatcher "replays hints when nodes come back online": the hints of a node
\* that is alive are written and dropped, as long as the node stays alive and the
\* dispatcher is not stopped.
HintsDelivered ==
    \A n \in Nodes : (hints[n] # << >> /\ n \in alive) ~> (hints[n] = << >> \/ n \notin alive \/ ~running)
=============================================================================
