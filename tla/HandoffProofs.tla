--------------------------- MODULE HandoffProofs ---------------------------
(***************************************************************************)
(* Proofs about the composed cluster (ReadRepair): its type invariant, and *)
(* the soundness of hinted handoff, for every number of nodes, keys,       *)
(* values, requests, flushes and replays.                                  *)
(*                                                                         *)
(* Each conjunct of the inductive invariant is about a few variables, and  *)
(* has a lemma of its own that says that every step preserves it.          *)
(***************************************************************************)
EXTENDS ReadRepair, HandoffLemmas

-----------------------------------------------------------------------------
(* The inductive invariant.                                                *)

OptValues == Values \cup {NoValue}
OptKeys == Keys \cup {NoValue}

CallPCs == {"idle", "save", "update", "wrap", "hint", "select", "send", "check", "done"}
CallRec ==
    [pc : CallPCs, level : {"ONE", "QUORUM", "ALL"}, key : OptKeys, val : OptValues,
     new : Config, old : Config, left : Nat, todo : Seq(Nodes), wait : SUBSET Nodes,
     ok : SUBSET Nodes, took : SUBSET Nodes, got : Nat, res : BOOLEAN]

BudgetType == \A f \in DOMAIN budget : budget[f] \in Nat

ConfigType == cfg \in Config /\ alive \subseteq Nodes /\ Local \in alive

DataType == data \in [Nodes -> [Keys -> OptValues]]

\* Every call under way is for a key and a value.
CallType ==
    /\ written \subseteq Values
    /\ call \in [Callers -> CallRec]
    /\ \A c \in Callers : call[c].pc # "idle" => call[c].key \in Keys /\ call[c].val \in Values

ReplayPCs == {"idle", "check", "nodes", "mark", "hints", "write", "remove", "unmark", "wait", "ended"}
ReplayRec ==
    [pc : ReplayPCs, node : Nodes, nodes : SUBSET Nodes, left : Seq(Hint), checks : Nat]

\* A replayer that is about to write a hint has one.
ReplayType ==
    /\ running \in BOOLEAN /\ closed \in BOOLEAN
    /\ replaying \subseteq Nodes
    /\ replay \in [Replayers -> ReplayRec]
    /\ \A r \in Replayers : replay[r].pc \in {"write", "remove"} => replay[r].left # << >>

\* A replayer between mark and unmark has its node marked, and no other has it.
Marked == {"hints", "write", "remove", "unmark"}
MarkSound ==
    \A r \in Replayers : replay[r].pc \in Marked =>
        /\ replay[r].node \in replaying
        /\ \A s \in Replayers : replay[s].pc \in Marked /\ replay[s].node = replay[r].node => r = s

FlushRec == [open : BOOLEAN, out : Seq(Slot), pos : Nat, alone : BOOLEAN]

\* The hints, their number, and the lines of the file, which are not more.
StoreType ==
    /\ hints \in HintsOf
    /\ total = HintCount(hints) /\ total <= MaxHints
    /\ file \in Seq(Slots) /\ Len(file) <= MaxHints
    /\ pending \in 0 .. MaxPending /\ sound \in BOOLEAN
    /\ clock \in 0 .. MaxStored /\ expired \in 0 .. clock

\* The store keeps no hint that it has found to be too old.
Fresh == \A n \in Nodes : \A i \in DOMAIN hints[n] : hints[n][i].at > expired

\* An open flush writes the hints of the store in some order of the nodes. One
\* that is alone has written all of the file, and nobody else writes.
FlushType ==
    /\ flush \in [Flushers -> FlushRec]
    /\ \A f \in Flushers : flush[f].pos <= Len(flush[f].out)
    /\ \A f \in Flushers : flush[f].open => \E o \in Orders : flush[f].out = Contents(o)
    /\ \A f \in Flushers : flush[f].open /\ flush[f].alone =>
          /\ \A g \in Flushers : flush[g].open => g = f
          /\ file = SubSeq(flush[f].out, 1, flush[f].pos)

Answer == [node : Nodes, val : OptValues]
ReadRec ==
    [pc : {"idle", "send", "check"}, key : OptKeys, sent : SUBSET Nodes, wait : SUBSET Nodes,
     resp : SUBSET Answer, got : Nat, expect : OptValues]

\* The answers of a read are from nodes it has asked and that have answered.
ReadSound(x) ==
    /\ x.wait \subseteq x.sent
    /\ IsFiniteSet(x.resp)
    /\ \A a \in x.resp : a.node \in x.sent \ x.wait
    /\ x.pc # "idle" => x.key \in Keys
ReadType ==
    /\ read \in [Readers -> ReadRec]
    /\ \A r \in Readers : ReadSound(read[r])

Task == [key : Keys, val : Values, targets : SUBSET Nodes]
WorkerPCs == {"idle", "queue", "rate", "write", "ended"}
RepairType ==
    /\ queue \in Seq(Task)
    /\ worker \in [Workers -> [pc : WorkerPCs, task : Task \cup {NoTask}]]
    /\ \A w \in Workers : worker[w].pc \in {"rate", "write"} => worker[w].task \in Task
    /\ ops \in 0 .. MaxRate
    /\ sched \in {"running", "stopping", "stopped"}
    /\ stats \in [StatsCallers -> {"idle", "held"}]

GhostType ==
    /\ solo \subseteq Clients
    /\ acked \in [Keys -> OptValues]
    /\ mixed \in BOOLEAN

ClusterType ==
    /\ BudgetType /\ ConfigType /\ DataType /\ CallType /\ ReplayType
    /\ StoreType /\ FlushType /\ ReadType /\ RepairType /\ GhostType

IInv == ClusterType /\ MarkSound /\ Fresh /\ QuietFileLoads

-----------------------------------------------------------------------------
(* Facts about the constants and the helpers.                              *)

USE DEF coordVars, storeVars, dispVars, handoffVars, repairVars, ghostVars

\* The configurations that occur have quorums of at most ReplicaCount.
LEMMA ConfigFacts ==
    /\ Quorum \in 1 .. ReplicaCount
    /\ DefaultConfig \in Config
    /\ \A l : cfg \in Config => LevelConfig(l) \in Config
<1>1. ReplicaCount \in Nat /\ ReplicaCount > 0
  BY CoordinatorAssumption
<1>2. Quorum \in 1 .. ReplicaCount
  BY <1>1 DEF Quorum
<1>3. DefaultConfig \in Config
  BY <1>1, <1>2 DEF DefaultConfig, Config
<1>4. 1 \in 0 .. ReplicaCount /\ ReplicaCount \in 0 .. ReplicaCount
  BY <1>1
<1>5. [rq |-> 1, wq |-> 1] \in Config /\ [rq |-> ReplicaCount, wq |-> ReplicaCount] \in Config
  BY <1>4 DEF Config
<1>6. ASSUME NEW l, cfg \in Config PROVE LevelConfig(l) \in Config
  BY <1>5, <1>6 DEF LevelConfig
<1> QED BY <1>2, <1>3, <1>6

\* A caller that is in no call.
LEMMA IdleIs == Idle \in CallRec /\ Idle.pc = "idle"
BY ConfigFacts DEF Idle, CallRec, CallPCs, OptKeys, OptValues

\* The replicas of a key are nodes.
LEMMA ReplicaFacts ==
    ASSUME NEW k \in Keys
    PROVE  /\ SelectReplicas(k) \in Seq(Nodes)
           /\ AliveReplicas(k) \subseteq Nodes /\ AliveReplicas(k) \subseteq alive
           /\ IsFiniteSet(AliveReplicas(k))
           /\ DeadReplicas(k) \in Seq(Nodes)
<1> DEFINE s == Owners[k]
<1> DEFINE m == Lesser(Len(s), ReplicaCount)
<1>1. s \in Seq(Nodes) /\ Len(s) \in Nat /\ ReplicaCount \in Nat
  BY CoordinatorAssumption
<1>2. m \in Nat /\ m <= Len(s)
  BY <1>1 DEF Lesser
<1>3. SelectReplicas(k) = SubSeq(s, 1, m)
  BY DEF SelectReplicas
<1> HIDE DEF s, m
<1>4. SelectReplicas(k) \in Seq(Nodes)
  <2>1. \A i \in 1 .. m : i \in 1 .. Len(s)
    BY <1>1, <1>2
  <2> QED BY <1>1, <1>2, <1>3, <2>1, SubSeqProperties
<1>5. SeqToSet(SelectReplicas(k)) \subseteq Nodes
  BY <1>4 DEF SeqToSet
<1>6. AliveReplicas(k) \subseteq Nodes /\ AliveReplicas(k) \subseteq alive
  BY <1>5 DEF AliveReplicas
<1>7. IsFiniteSet(AliveReplicas(k))
  BY <1>6, FS_Subset, HandoffAssumption
<1>8. DeadReplicas(k) \in Seq(Nodes)
  BY <1>4, FilterType DEF DeadReplicas
<1> QED BY <1>4, <1>6, <1>7, <1>8

-----------------------------------------------------------------------------
(* The budget.                                                             *)

\* A budget that is spent stays one.
LEMMA SpendType ==
    ASSUME BudgetType, NEW f, Spend(f)
    PROVE  BudgetType'
BY DEF BudgetType, Spend

\* Every step spends from the budget or leaves it alone.
LEMMA BudgetStep ==
    ASSUME BudgetType, [Next]_vars
    PROVE  BudgetType'
<1> USE SpendType
<1>0. ASSUME UNCHANGED budget PROVE BudgetType'
  BY <1>0 DEF BudgetType
<1>1. ASSUME NEW c \in Clients, NEW l \in Levels, NEW n \in 1 .. MaxBatch, NEW k \in Keys, NEW v \in Values,
             BeginPut(c, l, n, k, v)
      PROVE  BudgetType'
  BY <1>0, <1>1 DEF BeginPut, PutEntity
<1>2. ASSUME NEW c \in Clients, EndPut(c) PROVE BudgetType'
  BY <1>0, <1>2 DEF EndPut, RestoreConfig
<1>3. CASE ClientNext
  <2>1. ASSUME NEW c \in Callers, NEW n \in Nodes, ReplicaWrite(c, n) PROVE BudgetType'
    BY <1>0, <2>1 DEF ReplicaWrite
  <2>2. ASSUME NEW c \in Callers, WriteStep(c) PROVE BudgetType'
    BY <1>0, <2>1, <2>2 DEF WriteStep, Select, WaitForQuorum, CheckQuorum
  <2>3. ASSUME NEW n \in Nodes, AliveChanges(n) PROVE BudgetType'
    BY <2>3 DEF AliveChanges
  <2>4. ASSUME NEW c \in Clients, SaveConfig(c) \/ UpdateConfig(c) \/ WrapWrite(c) \/ HintsStored(c)
        PROVE  BudgetType'
    BY <1>0, <2>4 DEF SaveConfig, UpdateConfig, WrapWrite, HintsStored
  <2> QED BY <1>3, <2>2, <2>3, <2>4 DEF ClientNext
<1>4. CASE HandoffNext
  <2>1. ASSUME NEW c \in Clients, StoreHint(c) PROVE BudgetType'
    BY <1>0, <2>1 DEF StoreHint
  <2>2. ASSUME Cleanup \/ Stop PROVE BudgetType'
    BY <2>2 DEF Cleanup, Stop
  <2>3. ASSUME NEW f \in Flushers, FlushStep(f) \/ FlushFail(f) PROVE BudgetType'
    BY <1>0, <2>3 DEF FlushStep, FlushOpen, FlushWrite, FlushSync, FlushFail
  <2>4. ASSUME StopReturns \/ (\E lp \in Loops : LoopStep(lp) \/ Start(lp)) PROVE BudgetType'
    BY <1>0, <2>4 DEF LoopStep, CheckAndReplay, NextNode, LoopWakes, StopReturns, Start
  <2>5. ASSUME NEW r \in Replayers, ReplayStep(r) PROVE BudgetType'
    BY <1>0, <2>5 DEF ReplayStep, MarkReplaying, CopyHints, ReplayHint, ReplayStops, ReplayReturns, Unmark
  <2>6. ASSUME NEW r \in Replayers, NEW n \in Nodes, TriggerReplay(r, n) PROVE BudgetType'
    BY <2>6 DEF TriggerReplay
  <2> QED BY <1>4, <2>1, <2>2, <2>3, <2>4, <2>5, <2>6 DEF HandoffNext
<1>5. CASE Crash
  BY <1>5 DEF Crash, Restart
<1>6. CASE RepairNext
  <2>1. ASSUME NEW r \in Readers, ReadStep(r) PROVE BudgetType'
    BY <1>0, <2>1 DEF ReadStep, ReadQuorum, ReadReturns, ReplicaRead
  <2>2. ASSUME NEW r \in Readers, NEW k \in Keys, ReadWithResponses(r, k) PROVE BudgetType'
    BY <2>2 DEF ReadWithResponses
  <2>3. ASSUME NEW w \in Workers, WorkerStep(w) PROVE BudgetType'
    BY <1>0, <2>3 DEF WorkerStep, WorkerTurn, Dequeue, RateAllow, RepairWrite, RepairDone
  <2>4. ASSUME WindowEnds \/ StopScheduler \/ SchedulerStopped \/ StartScheduler PROVE BudgetType'
    BY <1>0, <2>4 DEF WindowEnds, StopScheduler, SchedulerStopped, StartScheduler
  <2>5. ASSUME NEW s \in StatsCallers, StatsBegin(s) \/ StatsEnd(s) PROVE BudgetType'
    BY <1>0, <2>5 DEF StatsBegin, StatsEnd
  <2> QED BY <1>6, <2>1, <2>2, <2>3, <2>4, <2>5 DEF RepairNext
<1>7. CASE UNCHANGED vars
  BY <1>0, <1>7 DEF vars
<1> QED BY <1>1, <1>2, <1>3, <1>4, <1>5, <1>6, <1>7 DEF Next

-----------------------------------------------------------------------------
(* What the steps of each part leave alone.                                *)

\* Reads and repairs change neither calls nor hints.
LEMMA RepairFrame ==
    ASSUME RepairNext
    PROVE  UNCHANGED << cfg, alive, call, written, handoffVars, acked, mixed >>
<1>1. ASSUME NEW r \in Readers, ReadStep(r)
      PROVE  UNCHANGED << cfg, alive, call, written, handoffVars, acked, mixed >>
  BY <1>1 DEF ReadStep, ReadQuorum, ReadReturns, ReplicaRead
<1>2. ASSUME NEW r \in Readers, NEW k \in Keys, ReadWithResponses(r, k)
      PROVE  UNCHANGED << cfg, alive, call, written, handoffVars, acked, mixed >>
  BY <1>2 DEF ReadWithResponses
<1>3. ASSUME NEW w \in Workers, WorkerStep(w)
      PROVE  UNCHANGED << cfg, alive, call, written, handoffVars, acked, mixed >>
  BY <1>3 DEF WorkerStep, WorkerTurn, Dequeue, RateAllow, RepairWrite, RepairDone
<1>4. ASSUME WindowEnds \/ StopScheduler \/ SchedulerStopped \/ StartScheduler
      PROVE  UNCHANGED << cfg, alive, call, written, handoffVars, acked, mixed >>
  BY <1>4 DEF WindowEnds, StopScheduler, SchedulerStopped, StartScheduler
<1>5. ASSUME NEW s \in StatsCallers, StatsBegin(s) \/ StatsEnd(s)
      PROVE  UNCHANGED << cfg, alive, call, written, handoffVars, acked, mixed >>
  BY <1>5 DEF StatsBegin, StatsEnd
<1> QED BY <1>1, <1>2, <1>3, <1>4, <1>5 DEF RepairNext

\* The handoff changes neither the configuration nor data, reads or repairs.
LEMMA HandoffFrame ==
    ASSUME HandoffNext
    PROVE  UNCHANGED << cfg, alive, data, written, read, repairVars, ghostVars >>
<1>1. ASSUME NEW c \in Clients, StoreHint(c) PROVE UNCHANGED << cfg, alive, data, written >>
  BY <1>1 DEF StoreHint
<1>2. ASSUME Cleanup \/ Stop \/ StopReturns \/ (\E lp \in Loops : LoopStep(lp) \/ Start(lp)) PROVE UNCHANGED << cfg, alive, data, written >>
  BY <1>2 DEF Cleanup, Stop, LoopStep, CheckAndReplay, NextNode, LoopWakes, StopReturns, Start
<1>3. ASSUME NEW f \in Flushers, FlushStep(f) \/ FlushFail(f) PROVE UNCHANGED << cfg, alive, data, written >>
  BY <1>3 DEF FlushStep, FlushOpen, FlushWrite, FlushSync, FlushFail
<1>4. ASSUME NEW r \in Replayers, ReplayStep(r) PROVE UNCHANGED << cfg, alive, data, written >>
  BY <1>4 DEF ReplayStep, MarkReplaying, CopyHints, ReplayHint, ReplayStops, ReplayReturns, Unmark
<1>5. ASSUME NEW r \in Replayers, NEW n \in Nodes, TriggerReplay(r, n) PROVE UNCHANGED << cfg, alive, data, written >>
  BY <1>5 DEF TriggerReplay
<1> QED BY <1>1, <1>2, <1>3, <1>4, <1>5 DEF HandoffNext

-----------------------------------------------------------------------------
(* The configuration, gossip and the data of the replicas.                 *)

\* The quorums stay within the replication factor, the local node stays alive.
LEMMA ConfigStep ==
    ASSUME ConfigType, CallType, [Next]_vars
    PROVE  ConfigType'
<1>0. ASSUME UNCHANGED << cfg, alive >> PROVE ConfigType'
  BY <1>0 DEF ConfigType
<1>1. \A c \in Callers : call[c].old \in Config /\ call[c].new \in Config
  BY DEF CallType, CallRec
<1>2. ASSUME cfg' \in Config, UNCHANGED alive PROVE ConfigType'
  BY <1>2 DEF ConfigType
<1>3. \A c \in Clients : c \in Callers
  BY DEF Callers
<1>4. ASSUME NEW c \in Clients, NEW l \in Levels, NEW n \in 1 .. MaxBatch, NEW k \in Keys, NEW v \in Values,
             BeginPut(c, l, n, k, v)
      PROVE  ConfigType'
  BY <1>0, <1>4 DEF BeginPut, PutEntity
<1>5. ASSUME NEW c \in Clients, EndPut(c) PROVE ConfigType'
  BY <1>1, <1>2, <1>3, <1>5 DEF EndPut, RestoreConfig
<1>6. CASE ClientNext
  <2>1. ASSUME NEW c \in Clients, SaveConfig(c) \/ UpdateConfig(c) \/ WrapWrite(c) \/ HintsStored(c)
        PROVE  ConfigType'
    BY <1>0, <1>1, <1>2, <1>3, <2>1 DEF SaveConfig, UpdateConfig, WrapWrite, HintsStored
  <2>2. ASSUME NEW c \in Callers, WriteStep(c) PROVE ConfigType'
    BY <1>0, <2>2 DEF WriteStep, Select, ReplicaWrite, WaitForQuorum, CheckQuorum
  <2>3. ASSUME NEW n \in Nodes, AliveChanges(n) PROVE ConfigType'
    BY <2>3 DEF AliveChanges, ConfigType
  <2> QED BY <1>6, <2>1, <2>2, <2>3 DEF ClientNext
<1>7. CASE HandoffNext
  BY <1>0, <1>7, HandoffFrame
<1>8. CASE Crash
  BY <1>2, <1>8, ConfigFacts DEF Crash, Restart
<1>9. CASE RepairNext
  BY <1>0, <1>9, RepairFrame
<1>10. CASE UNCHANGED vars
  BY <1>0, <1>10 DEF vars
<1> QED BY <1>4, <1>5, <1>6, <1>7, <1>8, <1>9, <1>10 DEF Next

\* Replicas store values of clients only.
LEMMA DataStep ==
    ASSUME DataType, CallType, RepairType, [Next]_vars
    PROVE  DataType'
<1>0. ASSUME UNCHANGED data PROVE DataType'
  BY <1>0 DEF DataType
<1>1. ASSUME NEW n \in Nodes, NEW k \in Keys, NEW v \in Values, data' = [data EXCEPT ![n][k] = v]
      PROVE  DataType'
  BY <1>1 DEF DataType, OptValues
<1>2. ASSUME NEW c \in Clients, NEW l \in Levels, NEW n \in 1 .. MaxBatch, NEW k \in Keys, NEW v \in Values,
             BeginPut(c, l, n, k, v)
      PROVE  DataType'
  BY <1>0, <1>2 DEF BeginPut, PutEntity
<1>3. ASSUME NEW c \in Clients, EndPut(c) PROVE DataType'
  BY <1>0, <1>3 DEF EndPut, RestoreConfig
<1>4. CASE ClientNext
  <2>1. ASSUME NEW c \in Callers, NEW n \in Nodes, ReplicaWrite(c, n) PROVE DataType'
    <3>1. call[c].key \in Keys /\ call[c].val \in Values
      BY <2>1 DEF ReplicaWrite, CallType
    <3> QED BY <1>0, <1>1, <2>1, <3>1 DEF ReplicaWrite
  <2>2. ASSUME NEW c \in Callers, WriteStep(c) PROVE DataType'
    BY <1>0, <2>1, <2>2 DEF WriteStep, Select, WaitForQuorum, CheckQuorum
  <2>3. ASSUME NEW n \in Nodes, AliveChanges(n) PROVE DataType'
    BY <1>0, <2>3 DEF AliveChanges
  <2>4. ASSUME NEW c \in Clients, SaveConfig(c) \/ UpdateConfig(c) \/ WrapWrite(c) \/ HintsStored(c)
        PROVE  DataType'
    BY <1>0, <2>4 DEF SaveConfig, UpdateConfig, WrapWrite, HintsStored
  <2> QED BY <1>4, <2>2, <2>3, <2>4 DEF ClientNext
<1>5. CASE HandoffNext
  BY <1>0, <1>5, HandoffFrame
<1>6. CASE Crash
  BY <1>0, <1>6 DEF Crash, Restart
<1>7. CASE RepairNext
  <2>1. ASSUME NEW r \in Readers, ReadStep(r) PROVE DataType'
    BY <1>0, <2>1 DEF ReadStep, ReadQuorum, ReadReturns, ReplicaRead
  <2>2. ASSUME NEW r \in Readers, NEW k \in Keys, ReadWithResponses(r, k) PROVE DataType'
    BY <1>0, <2>2 DEF ReadWithResponses
  <2>3. ASSUME NEW w \in Workers, NEW n \in Nodes, RepairWrite(w, n) PROVE DataType'
    <3>1. worker[w].task \in Task
      BY <2>3 DEF RepairWrite, RepairType
    <3>2. worker[w].task.key \in Keys /\ worker[w].task.val \in Values
      BY <3>1 DEF Task
    <3> QED BY <1>0, <1>1, <2>3, <3>2 DEF RepairWrite
  <2>4. ASSUME NEW w \in Workers, WorkerStep(w) PROVE DataType'
    BY <1>0, <2>3, <2>4 DEF WorkerStep, WorkerTurn, Dequeue, RateAllow, RepairDone
  <2>5. ASSUME WindowEnds \/ StopScheduler \/ SchedulerStopped \/ StartScheduler PROVE DataType'
    BY <1>0, <2>5 DEF WindowEnds, StopScheduler, SchedulerStopped, StartScheduler
  <2>6. ASSUME NEW s \in StatsCallers, StatsBegin(s) \/ StatsEnd(s) PROVE DataType'
    BY <1>0, <2>6 DEF StatsBegin, StatsEnd
  <2> QED BY <1>7, <2>1, <2>2, <2>4, <2>5, <2>6 DEF RepairNext
<1>8. CASE UNCHANGED vars
  BY <1>0, <1>8 DEF vars
<1> QED BY <1>2, <1>3, <1>4, <1>5, <1>6, <1>7, <1>8 DEF Next

-----------------------------------------------------------------------------
(* The calls.                                                              *)

\* What a step does to the call of one caller.
LEMMA OneCall ==
    ASSUME CallType, NEW c \in Callers, NEW rec \in CallRec, NEW W \in SUBSET Values,
           rec.pc # "idle" => rec.key \in Keys /\ rec.val \in Values,
           call' = [call EXCEPT ![c] = rec], written' = W
    PROVE  CallType'
BY DEF CallType

\* A call goes on with the fields that a step gives it, for the same key and value.
LEMMA CallGoesOn ==
    ASSUME CallType, NEW c \in Callers, call[c].pc # "idle", UNCHANGED written,
           NEW rec \in CallRec, rec.key = call[c].key, rec.val = call[c].val,
           call' = [call EXCEPT ![c] = rec]
    PROVE  CallType'
BY OneCall DEF CallType

\* Steps of a write.
LEMMA CallClientStep ==
    ASSUME CallType, ConfigType, ClientNext
    PROVE  CallType'
<1>0. ASSUME UNCHANGED << call, written >> PROVE CallType'
  BY <1>0 DEF CallType
<1>1. \A c \in Clients : c \in Callers
  BY DEF Callers
<1>2. \A c \in Callers : call[c] \in CallRec
  BY DEF CallType
<1>3. ASSUME NEW c \in Clients, SaveConfig(c) PROVE CallType'
  <2> DEFINE rec == [call[c] EXCEPT !.pc = "update", !.old = cfg]
  <2>1. rec \in CallRec /\ rec.key = call[c].key /\ rec.val = call[c].val
    BY <1>1, <1>2 DEF CallRec, CallPCs, ConfigType
  <2>2. call' = [call EXCEPT ![c] = rec] /\ call[c].pc # "idle" /\ UNCHANGED written
    BY <1>3 DEF SaveConfig
  <2> HIDE DEF rec
  <2> QED BY <1>1, <2>1, <2>2, CallGoesOn
<1>4. ASSUME NEW c \in Clients, UpdateConfig(c) PROVE CallType'
  <2> DEFINE rec == [call[c] EXCEPT !.pc = "wrap"]
  <2>1. rec \in CallRec /\ rec.key = call[c].key /\ rec.val = call[c].val
    BY <1>1, <1>2 DEF CallRec, CallPCs
  <2>2. call' = [call EXCEPT ![c] = rec] /\ call[c].pc # "idle" /\ UNCHANGED written
    BY <1>4 DEF UpdateConfig
  <2> HIDE DEF rec
  <2> QED BY <1>1, <2>1, <2>2, CallGoesOn
<1>5. ASSUME NEW c \in Clients, WrapWrite(c) PROVE CallType'
  <2> DEFINE done == [call[c] EXCEPT !.pc = "done", !.res = FALSE]
  <2> DEFINE hint == [call[c] EXCEPT !.pc = "hint", !.todo = DeadReplicas(call[c].key)]
  <2>1. call[c].pc # "idle" /\ call[c].key \in Keys
    BY <1>1, <1>5 DEF WrapWrite, CallType
  <2>2. done \in CallRec /\ done.key = call[c].key /\ done.val = call[c].val
    BY <1>1, <1>2 DEF CallRec, CallPCs
  <2>3. DeadReplicas(call[c].key) \in Seq(Nodes)
    BY <2>1, ReplicaFacts
  <2>4. hint \in CallRec /\ hint.key = call[c].key /\ hint.val = call[c].val
    BY <1>1, <1>2, <2>3 DEF CallRec, CallPCs
  <2>5. call' = [call EXCEPT ![c] = done] \/ call' = [call EXCEPT ![c] = hint]
    BY <1>5 DEF WrapWrite
  <2>6. UNCHANGED written
    BY <1>5 DEF WrapWrite
  <2> HIDE DEF done, hint
  <2> QED BY <1>1, <2>1, <2>2, <2>4, <2>5, <2>6, CallGoesOn
<1>6. ASSUME NEW c \in Clients, HintsStored(c) PROVE CallType'
  <2> DEFINE rec == [call[c] EXCEPT !.pc = "select"]
  <2>1. rec \in CallRec /\ rec.key = call[c].key /\ rec.val = call[c].val
    BY <1>1, <1>2 DEF CallRec, CallPCs
  <2>2. call' = [call EXCEPT ![c] = rec] /\ call[c].pc # "idle" /\ UNCHANGED written
    BY <1>6 DEF HintsStored
  <2> HIDE DEF rec
  <2> QED BY <1>1, <2>1, <2>2, CallGoesOn
<1>7. ASSUME NEW c \in Callers, Select(c) PROVE CallType'
  <2> DEFINE targets == AliveReplicas(call[c].key)
  <2> DEFINE done == [call[c] EXCEPT !.pc = "done", !.res = FALSE]
  <2> DEFINE send == [call[c] EXCEPT !.pc = "send", !.wait = targets, !.ok = {}, !.took = {}]
  <2>1. call[c].pc # "idle" /\ call[c].key \in Keys
    BY <1>7 DEF Select, CallType
  <2>2. done \in CallRec /\ done.key = call[c].key /\ done.val = call[c].val
    BY <1>2 DEF CallRec, CallPCs
  <2>3. targets \in SUBSET Nodes
    BY <2>1, ReplicaFacts
  <2>4. call' = [call EXCEPT ![c] = done] \/ call' = [call EXCEPT ![c] = send]
    BY <1>7 DEF Select
  <2>5. UNCHANGED written
    BY <1>7 DEF Select
  <2> HIDE DEF targets
  <2>6. send \in CallRec /\ send.key = call[c].key /\ send.val = call[c].val
    BY <1>2, <2>3 DEF CallRec, CallPCs
  <2> HIDE DEF done, send
  <2> QED BY <2>1, <2>2, <2>4, <2>5, <2>6, CallGoesOn
<1>8. ASSUME NEW c \in Callers, NEW n \in Nodes, ReplicaWrite(c, n) PROVE CallType'
  <2>1. PICK takes \in BOOLEAN, answers \in BOOLEAN :
           call' = [call EXCEPT ![c].wait = @ \ {n},
                                ![c].ok = IF answers THEN @ \cup {n} ELSE @,
                                ![c].took = IF takes THEN @ \cup {n} ELSE @]
    BY <1>8 DEF ReplicaWrite
  <2> DEFINE rec == [call[c] EXCEPT !.wait = @ \ {n},
                                    !.ok = IF answers THEN @ \cup {n} ELSE @,
                                    !.took = IF takes THEN @ \cup {n} ELSE @]
  <2>2. rec \in CallRec /\ rec.key = call[c].key /\ rec.val = call[c].val
    BY <1>2 DEF CallRec
  <2>3. call' = [call EXCEPT ![c] = rec]
    BY <2>1
  <2>4. call[c].pc # "idle" /\ UNCHANGED written
    BY <1>8 DEF ReplicaWrite
  <2> HIDE DEF rec
  <2> QED BY <2>2, <2>3, <2>4, CallGoesOn
<1>9. ASSUME NEW c \in Callers, WaitForQuorum(c) PROVE CallType'
  <2> DEFINE got == Lesser(Cardinality(call[c].ok), cfg.wq)
  <2> DEFINE rec == [call[c] EXCEPT !.pc = "check", !.got = got]
  <2>1. call[c].ok \in SUBSET Nodes
    BY <1>2 DEF CallRec
  <2>2. Cardinality(call[c].ok) \in Nat
    BY <2>1, FS_Subset, FS_CardinalityType, HandoffAssumption
  <2>3. cfg.wq \in Nat
    BY CoordinatorAssumption DEF ConfigType, Config
  <2>4. got \in Nat
    BY <2>2, <2>3 DEF Lesser
  <2>5. call' = [call EXCEPT ![c] = rec] /\ call[c].pc # "idle" /\ UNCHANGED written
    BY <1>9 DEF WaitForQuorum
  <2> HIDE DEF got
  <2>6. rec \in CallRec /\ rec.key = call[c].key /\ rec.val = call[c].val
    BY <1>2, <2>4 DEF CallRec, CallPCs
  <2> HIDE DEF rec
  <2> QED BY <2>5, <2>6, CallGoesOn
<1>10. ASSUME NEW c \in Callers, CheckQuorum(c) PROVE CallType'
  <2> DEFINE res == call[c].got >= cfg.wq
  <2> DEFINE rec == [call[c] EXCEPT !.pc = "done", !.res = res]
  <2>1. res \in BOOLEAN
    OBVIOUS
  <2>2. call' = [call EXCEPT ![c] = rec] /\ call[c].pc # "idle" /\ UNCHANGED written
    BY <1>10 DEF CheckQuorum
  <2> HIDE DEF res
  <2>3. rec \in CallRec /\ rec.key = call[c].key /\ rec.val = call[c].val
    BY <1>2, <2>1 DEF CallRec, CallPCs
  <2> HIDE DEF rec
  <2> QED BY <2>2, <2>3, CallGoesOn
<1>11. ASSUME NEW n \in Nodes, AliveChanges(n) PROVE CallType'
  BY <1>0, <1>11 DEF AliveChanges
<1> QED BY <1>3, <1>4, <1>5, <1>6, <1>7, <1>8, <1>9, <1>10, <1>11 DEF ClientNext, WriteStep

\* Steps of the handoff: hints stored, and hints taken to a call of their own.
LEMMA CallHandoffStep ==
    ASSUME CallType, ReplayType, HandoffNext
    PROVE  CallType'
<1>0. ASSUME UNCHANGED << call, written >> PROVE CallType'
  BY <1>0 DEF CallType
<1>1. \A c \in Callers : call[c] \in CallRec
  BY DEF CallType
<1>2. UNCHANGED written
  BY HandoffFrame
<1>3. written \in SUBSET Values
  BY DEF CallType
<1>4. ASSUME NEW c \in Clients, StoreHint(c) PROVE CallType'
  <2> DEFINE rec == [call[c] EXCEPT !.todo = Tail(@)]
  <2>1. c \in Callers /\ call[c].todo \in Seq(Nodes) /\ call[c].todo # << >>
    BY <1>1, <1>4 DEF Callers, CallRec, StoreHint
  <2>2. Tail(call[c].todo) \in Seq(Nodes)
    BY <2>1
  <2>3. rec \in CallRec /\ rec.key = call[c].key /\ rec.val = call[c].val
    BY <1>1, <2>1, <2>2 DEF CallRec
  <2>4. call' = [call EXCEPT ![c] = rec] /\ call[c].pc # "idle"
    BY <1>4 DEF StoreHint
  <2> HIDE DEF rec
  <2> QED BY <1>2, <2>1, <2>3, <2>4, CallGoesOn
<1>5. ASSUME Cleanup \/ Stop \/ StopReturns \/ (\E lp \in Loops : LoopStep(lp) \/ Start(lp)) PROVE CallType'
  BY <1>0, <1>5 DEF Cleanup, Stop, LoopStep, CheckAndReplay, NextNode, LoopWakes, StopReturns, Start
<1>6. ASSUME NEW f \in Flushers, FlushStep(f) \/ FlushFail(f) PROVE CallType'
  BY <1>0, <1>6 DEF FlushStep, FlushOpen, FlushWrite, FlushSync, FlushFail
<1>7. ASSUME NEW r \in Replayers, NEW n \in Nodes, TriggerReplay(r, n) PROVE CallType'
  BY <1>0, <1>7 DEF TriggerReplay
<1>8. ASSUME NEW r \in Replayers, ReplayHint(r) PROVE CallType'
  <2> DEFINE h == Head(replay[r].left)
  <2> DEFINE rec == [Idle EXCEPT !.pc = "select", !.key = h.key, !.val = h.val]
  <2>1. replay[r].left \in Seq(Hint) /\ replay[r].left # << >>
    BY <1>8 DEF ReplayHint, ReplayType, ReplayRec
  <2>2. h \in Hint
    BY <2>1
  <2>3. call' = [call EXCEPT ![r] = rec]
    BY <1>8 DEF ReplayHint
  <2> HIDE DEF h
  <2>4. h.key \in Keys /\ h.val \in Values
    BY <2>2 DEF Hint
  <2>5. rec \in CallRec /\ rec.key \in Keys /\ rec.val \in Values
    BY <2>4, IdleIs DEF CallRec, CallPCs, OptKeys, OptValues
  <2> HIDE DEF rec
  <2> QED BY <1>2, <1>3, <2>3, <2>5, OneCall DEF Callers
<1>9. ASSUME NEW r \in Replayers, ReplayReturns(r) PROVE CallType'
  <2>1. call' = [call EXCEPT ![r] = Idle]
    BY <1>9 DEF ReplayReturns
  <2> QED BY <1>2, <1>3, <2>1, IdleIs, OneCall DEF Callers
<1>10. ASSUME NEW r \in Replayers, MarkReplaying(r) \/ CopyHints(r) \/ ReplayStops(r) \/ Unmark(r) PROVE CallType'
  BY <1>0, <1>10 DEF MarkReplaying, CopyHints, ReplayStops, Unmark
<1> QED BY <1>4, <1>5, <1>6, <1>7, <1>8, <1>9, <1>10 DEF HandoffNext, ReplayStep

\* Every step.
LEMMA CallStep ==
    ASSUME CallType, ConfigType, ReplayType, [Next]_vars
    PROVE  CallType'
<1>0. ASSUME UNCHANGED << call, written >> PROVE CallType'
  BY <1>0 DEF CallType
<1>1. \A c \in Clients : c \in Callers
  BY DEF Callers
<1>2. ASSUME NEW c \in Clients, NEW l \in Levels, NEW n \in 1 .. MaxBatch, NEW k \in Keys, NEW v \in Values,
             BeginPut(c, l, n, k, v)
      PROVE  CallType'
  <2> DEFINE rec == [Idle EXCEPT !.pc = "save", !.level = l, !.key = k, !.val = v,
                                 !.new = LevelConfig(l), !.left = n - 1]
  <2>1. call' = [call EXCEPT ![c] = rec] /\ written' = written \cup {v}
    BY <1>2 DEF BeginPut, PutEntity
  <2>2. LevelConfig(l) \in Config /\ l \in {"ONE", "QUORUM", "ALL"} /\ n - 1 \in Nat
    BY ConfigFacts, CoordinatorAssumption DEF ConfigType
  <2>3. rec \in CallRec /\ rec.key \in Keys /\ rec.val \in Values
    BY <2>2, IdleIs DEF CallRec, CallPCs, OptKeys, OptValues
  <2>4. written \cup {v} \in SUBSET Values
    BY DEF CallType
  <2> HIDE DEF rec
  <2> QED BY <1>1, <2>1, <2>3, <2>4, OneCall
<1>3. ASSUME NEW c \in Clients, EndPut(c) PROVE CallType'
  <2>1. CASE call' = [call EXCEPT ![c] = Idle] /\ UNCHANGED written
    <3>1. written \in SUBSET Values
      BY DEF CallType
    <3> QED BY <1>1, <2>1, <3>1, IdleIs, OneCall
  <2>2. CASE ~(call[c].left = 0 \/ written = Values)
    <3>1. PICK k \in Keys, v \in Values \ written :
             /\ written' = written \cup {v}
             /\ call' = [call EXCEPT ![c] =
                    [Idle EXCEPT !.pc = "save", !.level = call[c].level, !.key = k,
                                 !.val = v, !.new = call[c].new, !.left = call[c].left - 1]]
      BY <1>3, <2>2 DEF EndPut, RestoreConfig
    <3> DEFINE rec == [Idle EXCEPT !.pc = "save", !.level = call[c].level, !.key = k,
                                   !.val = v, !.new = call[c].new, !.left = call[c].left - 1]
    <3>2. /\ call[c].level \in {"ONE", "QUORUM", "ALL"} /\ call[c].new \in Config
          /\ call[c].left \in Nat /\ call[c].left # 0
      BY <1>1, <2>2 DEF CallType, CallRec
    <3>3. call[c].left - 1 \in Nat
      BY <3>2
    <3>4. rec \in CallRec /\ rec.key \in Keys /\ rec.val \in Values
      BY <3>2, <3>3, IdleIs DEF CallRec, CallPCs, OptKeys, OptValues
    <3>5. written \cup {v} \in SUBSET Values
      BY DEF CallType
    <3>6. call' = [call EXCEPT ![c] = rec]
      BY <3>1
    <3> HIDE DEF rec
    <3> QED BY <1>1, <3>1, <3>4, <3>5, <3>6, OneCall
  <2> QED BY <1>3, <2>1, <2>2 DEF EndPut, RestoreConfig
<1>4. CASE ClientNext
  BY <1>4, CallClientStep
<1>5. CASE HandoffNext
  BY <1>5, CallHandoffStep
<1>6. CASE Crash
  <2>1. call' = [c \in Callers |-> Idle] /\ UNCHANGED written
    BY <1>6 DEF Crash, Restart
  <2> QED BY <2>1, IdleIs DEF CallType
<1>7. CASE RepairNext
  BY <1>0, <1>7, RepairFrame
<1>8. CASE UNCHANGED vars
  BY <1>0, <1>8 DEF vars
<1> QED BY <1>2, <1>3, <1>4, <1>5, <1>6, <1>7, <1>8 DEF Next

-----------------------------------------------------------------------------
(* The dispatcher.                                                         *)

\* The steps outside the dispatcher.
LEMMA DispatcherFrame ==
    ASSUME [Next]_vars, ~HandoffNext, ~Crash
    PROVE  UNCHANGED << running, closed, replaying, replay >>
<1>1. ASSUME NEW c \in Clients, NEW l \in Levels, NEW n \in 1 .. MaxBatch, NEW k \in Keys, NEW v \in Values,
             BeginPut(c, l, n, k, v)
      PROVE  UNCHANGED << running, closed, replaying, replay >>
  BY <1>1 DEF BeginPut
<1>2. ASSUME NEW c \in Clients, EndPut(c) PROVE UNCHANGED << running, closed, replaying, replay >>
  BY <1>2 DEF EndPut
<1>3. CASE ClientNext
  BY <1>3 DEF ClientNext
<1>4. CASE RepairNext
  BY <1>4, RepairFrame
<1>5. CASE UNCHANGED vars
  BY <1>5 DEF vars
<1> QED BY <1>1, <1>2, <1>3, <1>4, <1>5 DEF Next

\* A replayer at rest.
LEMMA NoReplayIs == \A pc \in ReplayPCs, n \in Nodes, k \in Nat :
    /\ NoReplay \in ReplayRec /\ [NoReplay EXCEPT !.pc = pc] \in ReplayRec
    /\ [NoReplay EXCEPT !.pc = pc, !.node = n] \in ReplayRec
    /\ [NoReplay EXCEPT !.pc = pc, !.checks = k] \in ReplayRec
<1>1. NoReplay \in ReplayRec
  BY CoordinatorAssumption DEF NoReplay, ReplayRec, ReplayPCs
<1> QED BY <1>1 DEF ReplayRec

\* What a step does to one replayer.
LEMMA OneReplay ==
    ASSUME ReplayType, NEW r \in Replayers, NEW rec \in ReplayRec,
           rec.pc \in {"write", "remove"} => rec.left # << >>,
           replay' = [replay EXCEPT ![r] = rec],
           running' \in BOOLEAN, closed' \in BOOLEAN, replaying' \subseteq Nodes
    PROVE  ReplayType'
BY DEF ReplayType

\* The replayers keep their types, and have a hint when they are to write one.
LEMMA ReplayTypeStep ==
    ASSUME ReplayType, ConfigType, StoreType, [Next]_vars
    PROVE  ReplayType'
<1>0. ASSUME UNCHANGED << running, closed, replaying, replay >> PROVE ReplayType'
  BY <1>0 DEF ReplayType
<1>1. /\ running \in BOOLEAN /\ closed \in BOOLEAN /\ replaying \subseteq Nodes
      /\ \A r \in Replayers : replay[r] \in ReplayRec
      /\ Loops \subseteq Replayers
  BY HandoffAssumption DEF ReplayType
<1>2. CASE HandoffNext
  <2>1. ASSUME NEW c \in Clients, StoreHint(c) PROVE ReplayType'
    BY <1>0, <2>1 DEF StoreHint
  <2>2. CASE Cleanup
    BY <1>0, <2>2 DEF Cleanup
  <2>3. ASSUME NEW f \in Flushers, FlushStep(f) \/ FlushFail(f) PROVE ReplayType'
    BY <1>0, <2>3 DEF FlushStep, FlushOpen, FlushWrite, FlushSync, FlushFail
  <2>4. ASSUME NEW lp \in Loops, CheckAndReplay(lp) PROVE ReplayType'
    <3> DEFINE todo == {n \in alive \ replaying : hints[n] # << >>}
    <3> DEFINE rec == [replay[lp] EXCEPT !.pc = "nodes", !.nodes = todo]
    <3>1. todo \in SUBSET Nodes
      BY DEF ConfigType
    <3>2. replay' = [replay EXCEPT ![lp] = rec] /\ UNCHANGED << running, closed, replaying >>
      BY <2>4 DEF CheckAndReplay
    <3> HIDE DEF todo
    <3>3. rec \in ReplayRec /\ rec.pc = "nodes"
      BY <1>1, <3>1 DEF ReplayRec, ReplayPCs
    <3> HIDE DEF rec
    <3> QED BY <1>1, <3>2, <3>3, OneReplay
  <2>5. ASSUME NEW lp \in Loops, NextNode(lp) PROVE ReplayType'
    <3>1. UNCHANGED << running, closed, replaying >>
      BY <2>5 DEF NextNode
    <3>2. CASE Goto(lp, "wait")
      <4> DEFINE rec == [replay[lp] EXCEPT !.pc = "wait"]
      <4>1. rec \in ReplayRec /\ rec.pc = "wait" /\ replay' = [replay EXCEPT ![lp] = rec]
        BY <1>1, <3>2 DEF Goto, ReplayRec, ReplayPCs
      <4> HIDE DEF rec
      <4> QED BY <1>1, <3>1, <4>1, OneReplay
    <3>3. ASSUME NEW n \in replay[lp].nodes,
                 replay' = [replay EXCEPT ![lp].pc = "mark", ![lp].node = n, ![lp].nodes = @ \ {n}]
          PROVE  ReplayType'
      <4> DEFINE rec == [replay[lp] EXCEPT !.pc = "mark", !.node = n, !.nodes = @ \ {n}]
      <4>1. rec \in ReplayRec /\ rec.pc = "mark" /\ replay' = [replay EXCEPT ![lp] = rec]
        BY <1>1, <3>3 DEF ReplayRec, ReplayPCs
      <4> HIDE DEF rec
      <4> QED BY <1>1, <3>1, <4>1, OneReplay
    <3> QED BY <2>5, <3>2, <3>3 DEF NextNode
  <2>6. ASSUME NEW lp \in Loops, LoopWakes(lp) PROVE ReplayType'
    <3> DEFINE k == replay[lp].checks + 1
    <3> DEFINE a == [NoReplay EXCEPT !.pc = "ended"]
    <3> DEFINE b == [NoReplay EXCEPT !.pc = "check", !.checks = k]
    <3>1. k \in Nat
      BY <1>1 DEF ReplayRec
    <3>2. /\ replay' = [replay EXCEPT ![lp] = a] \/ replay' = [replay EXCEPT ![lp] = b]
          /\ UNCHANGED << running, closed, replaying >>
      BY <2>6 DEF LoopWakes
    <3> HIDE DEF k
    <3>3. a \in ReplayRec /\ b \in ReplayRec
      BY <3>1, NoReplayIs, CoordinatorAssumption DEF ReplayPCs
    <3>4. a.pc = "ended" /\ b.pc = "check"
      BY DEF NoReplay
    <3> HIDE DEF a, b
    <3> QED BY <1>1, <3>2, <3>3, <3>4, OneReplay
  <2>7. ASSUME NEW r \in Replayers, NEW n \in Nodes, TriggerReplay(r, n) PROVE ReplayType'
    <3> DEFINE a == [NoReplay EXCEPT !.pc = "mark", !.node = n]
    <3>1. replay' = [replay EXCEPT ![r] = a] /\ UNCHANGED << running, closed, replaying >>
      BY <2>7 DEF TriggerReplay
    <3>2. a \in ReplayRec
      BY NoReplayIs DEF ReplayPCs
    <3>3. a.pc = "mark"
      BY DEF NoReplay
    <3> HIDE DEF a
    <3> QED BY <1>1, <3>1, <3>2, <3>3, OneReplay
  <2>8. ASSUME NEW r \in Replayers, NEW pc \in {"hints", "nodes", "idle", "unmark", "check"}, Goto(r, pc),
               running' \in BOOLEAN, closed' \in BOOLEAN, replaying' \subseteq Nodes
        PROVE  ReplayType'
    <3> DEFINE rec == [replay[r] EXCEPT !.pc = pc]
    <3>1. rec \in ReplayRec /\ rec.pc = pc /\ replay' = [replay EXCEPT ![r] = rec]
      BY <1>1, <2>8 DEF Goto, ReplayRec, ReplayPCs
    <3> HIDE DEF rec
    <3> QED BY <2>8, <3>1, OneReplay
  <2>9. ASSUME NEW r \in Replayers, MarkReplaying(r) PROVE ReplayType'
    <3>1. replay[r].node \in Nodes
      BY <1>1 DEF ReplayRec
    <3> QED BY <1>1, <2>8, <2>9, <3>1 DEF MarkReplaying, After
  <2>10. ASSUME NEW r \in Replayers, CopyHints(r) PROVE ReplayType'
    <3> DEFINE hs == hints[replay[r].node]
    <3> DEFINE pc == IF hs = << >> THEN "unmark" ELSE "write"
    <3> DEFINE rec == [replay[r] EXCEPT !.left = hs, !.pc = pc]
    <3>1. hs \in Seq(Hint)
      BY <1>1 DEF ReplayRec, StoreType, HintsOf
    <3>2. replay' = [replay EXCEPT ![r] = rec] /\ UNCHANGED << running, closed, replaying >>
      BY <2>10 DEF CopyHints
    <3> HIDE DEF hs
    <3>3. rec \in ReplayRec /\ (rec.pc \in {"write", "remove"} => rec.left # << >>)
      BY <1>1, <3>1 DEF ReplayRec, ReplayPCs
    <3> HIDE DEF rec
    <3> QED BY <1>1, <3>2, <3>3, OneReplay
  <2>11. ASSUME NEW r \in Replayers, ReplayHint(r) PROVE ReplayType'
    <3> DEFINE rec == [replay[r] EXCEPT !.pc = "remove"]
    <3>1. rec \in ReplayRec /\ rec.left = replay[r].left
      BY <1>1 DEF ReplayRec, ReplayPCs
    <3>2. replay[r].left # << >>
      BY <2>11 DEF ReplayHint, ReplayType
    <3>3. replay' = [replay EXCEPT ![r] = rec] /\ UNCHANGED << running, closed, replaying >>
      BY <2>11 DEF ReplayHint, Goto
    <3> HIDE DEF rec
    <3> QED BY <1>1, <3>1, <3>2, <3>3, OneReplay
  <2>12. ASSUME NEW r \in Replayers, ReplayStops(r) \/ Unmark(r) PROVE ReplayType'
    BY <1>1, <2>8, <2>12 DEF ReplayStops, Unmark, After
  <2>13. ASSUME NEW r \in Replayers, ReplayReturns(r) PROVE ReplayType'
    <3> DEFINE l == replay[r].left
    <3> DEFINE pc == IF Len(l) = 1 THEN "unmark" ELSE "write"
    <3> DEFINE rec == [replay[r] EXCEPT !.left = Tail(l), !.pc = pc]
    <3>1. l \in Seq(Hint) /\ l # << >>
      BY <1>1, <2>13 DEF ReplayRec, ReplayType, ReplayReturns
    <3>2. replay' = [replay EXCEPT ![r] = rec] /\ UNCHANGED << running, closed, replaying >>
      BY <2>13 DEF ReplayReturns
    <3> HIDE DEF l
    <3>3. Tail(l) \in Seq(Hint) /\ (Len(l) # 1 => Tail(l) # << >>)
      <4> DEFINE t == Tail(l)
      <4>1. t \in Seq(Hint) /\ Len(t) = Len(l) - 1 /\ Len(l) \in Nat
        BY <3>1, HeadTailProperties
      <4> HIDE DEF t
      <4>2. Len(l) # 1 => Len(t) # 0
        BY <4>1
      <4>3. Len(l) # 1 => t # << >>
        BY <4>1, <4>2
      <4> QED BY <4>1, <4>3 DEF t
    <3>4. rec \in ReplayRec /\ rec.pc = pc /\ rec.left = Tail(l)
      BY <1>1, <3>3 DEF ReplayRec, ReplayPCs
    <3> HIDE DEF rec
    <3> QED BY <1>1, <3>2, <3>3, <3>4, OneReplay
  <2>14. CASE Stop \/ StopReturns
    BY <2>14, <1>1 DEF Stop, StopReturns, ReplayType
  <2>15. ASSUME NEW lp \in Loops, Start(lp) PROVE ReplayType'
    BY <1>1, <2>8, <2>15 DEF Start
  <2> QED
    BY <1>2, <2>1, <2>2, <2>3, <2>4, <2>5, <2>6, <2>7, <2>9, <2>10, <2>11, <2>12, <2>13, <2>14, <2>15
       DEF HandoffNext, LoopStep, ReplayStep
<1>3. CASE Crash
  <2> DEFINE a == [NoReplay EXCEPT !.pc = "check"]
  <2>1. NoReplay \in ReplayRec /\ a \in ReplayRec
    BY NoReplayIs, CoordinatorAssumption DEF ReplayPCs
  <2>2. NoReplay.pc = "idle" /\ a.pc = "check"
    BY DEF NoReplay
  <2>3. /\ replay' = [r \in Replayers |-> IF r = Loop THEN a ELSE NoReplay]
        /\ running' = TRUE /\ closed' = FALSE /\ replaying' = {}
    BY <1>3 DEF Crash, Restart
  <2> HIDE DEF a
  <2> QED BY <2>1, <2>2, <2>3 DEF ReplayType
<1> QED BY <1>0, <1>2, <1>3, DispatcherFrame

\* The ways a step may change one replayer and the marks.
LEMMA OneMark ==
    ASSUME MarkSound, NEW r \in Replayers, NEW rec, replay \in [Replayers -> ReplayRec],
           replay' = [replay EXCEPT ![r] = rec],
           \/ /\ rec.pc \notin Marked
              /\ \A n \in replaying : n \in replaying' \/ (replay[r].pc \in Marked /\ n = replay[r].node)
           \/ /\ rec.pc \in Marked /\ replay[r].pc \in Marked
              /\ rec.node = replay[r].node /\ UNCHANGED replaying
           \/ /\ rec.pc \in Marked /\ rec.node \notin replaying
              /\ replaying' = replaying \cup {rec.node}
    PROVE  MarkSound'
<1>1. replay'[r] = rec /\ \A s \in Replayers : s # r => replay'[s] = replay[s]
  OBVIOUS
<1>2. ASSUME NEW s \in Replayers, replay'[s].pc \in Marked
      PROVE  /\ replay'[s].node \in replaying'
             /\ \A q \in Replayers : replay'[q].pc \in Marked /\ replay'[q].node = replay'[s].node => s = q
  BY <1>1, <1>2 DEF MarkSound
<1> QED BY <1>2 DEF MarkSound

\* One replay of a node at a time.
LEMMA MarkStep ==
    ASSUME MarkSound, ReplayType, [Next]_vars
    PROVE  MarkSound'
<1>0. ASSUME UNCHANGED << replaying, replay >> PROVE MarkSound'
  BY <1>0 DEF MarkSound
<1>1. replay \in [Replayers -> ReplayRec] /\ Loops \subseteq Replayers
  BY HandoffAssumption DEF ReplayType
<1>2. CASE HandoffNext
  <2>1. ASSUME NEW c \in Clients, StoreHint(c) PROVE MarkSound'
    BY <1>0, <2>1 DEF StoreHint
  <2>2. CASE Cleanup \/ Stop \/ StopReturns
    BY <1>0, <2>2 DEF Cleanup, Stop, StopReturns
  <2>3. ASSUME NEW f \in Flushers, FlushStep(f) \/ FlushFail(f) PROVE MarkSound'
    BY <1>0, <2>3 DEF FlushStep, FlushOpen, FlushWrite, FlushSync, FlushFail
  <2>4. ASSUME NEW r \in Replayers, NEW rec, replay' = [replay EXCEPT ![r] = rec], UNCHANGED replaying,
               rec.pc \notin Marked
        PROVE  MarkSound'
    BY <1>1, <2>4, OneMark
  <2>5. ASSUME NEW r \in Replayers, NEW rec, replay' = [replay EXCEPT ![r] = rec], UNCHANGED replaying,
               rec.pc \in Marked, replay[r].pc \in Marked, rec.node = replay[r].node
        PROVE  MarkSound'
    BY <1>1, <2>5, OneMark
  <2>6. ASSUME NEW lp \in Loops, CheckAndReplay(lp) PROVE MarkSound'
    <3> DEFINE rec == [replay[lp] EXCEPT !.pc = "nodes",
                                           !.nodes = {n \in alive \ replaying : hints[n] # << >>}]
    <3>1. replay' = [replay EXCEPT ![lp] = rec] /\ UNCHANGED replaying
      BY <2>6 DEF CheckAndReplay
    <3>2. rec.pc \notin Marked
      BY <1>1 DEF Marked, ReplayRec
    <3> HIDE DEF rec
    <3> QED BY <1>1, <2>4, <3>1, <3>2
  <2>7. ASSUME NEW lp \in Loops, NextNode(lp) PROVE MarkSound'
    <3>1. PICK rec : replay' = [replay EXCEPT ![lp] = rec] /\ rec.pc \notin Marked
      <4>1. CASE Goto(lp, "wait")
        <5> DEFINE rec == [replay[lp] EXCEPT !.pc = "wait"]
        <5>1. replay' = [replay EXCEPT ![lp] = rec] /\ rec.pc \notin Marked
          BY <1>1, <4>1 DEF Goto, Marked, ReplayRec
        <5> QED BY <5>1
      <4>2. ASSUME NEW n \in replay[lp].nodes,
                   replay' = [replay EXCEPT ![lp].pc = "mark", ![lp].node = n, ![lp].nodes = @ \ {n}]
            PROVE  \E rec : replay' = [replay EXCEPT ![lp] = rec] /\ rec.pc \notin Marked
        <5> DEFINE rec == [replay[lp] EXCEPT !.pc = "mark", !.node = n, !.nodes = @ \ {n}]
        <5>1. replay' = [replay EXCEPT ![lp] = rec] /\ rec.pc \notin Marked
          BY <1>1, <4>2 DEF Marked, ReplayRec
        <5> QED BY <5>1
      <4> QED BY <2>7, <4>1, <4>2 DEF NextNode
    <3>2. UNCHANGED replaying
      BY <2>7 DEF NextNode
    <3> QED BY <1>1, <2>4, <3>1, <3>2
  <2>8. ASSUME NEW lp \in Loops, LoopWakes(lp) PROVE MarkSound'
    <3> DEFINE a == [NoReplay EXCEPT !.pc = "ended"]
    <3> DEFINE b == [NoReplay EXCEPT !.pc = "check", !.checks = replay[lp].checks + 1]
    <3>1. /\ replay' = [replay EXCEPT ![lp] = a] \/ replay' = [replay EXCEPT ![lp] = b]
          /\ UNCHANGED replaying
      BY <2>8 DEF LoopWakes
    <3>2. a.pc \notin Marked /\ b.pc \notin Marked
      BY DEF NoReplay, Marked
    <3> HIDE DEF a, b
    <3> QED BY <1>1, <2>4, <3>1, <3>2
  <2>9. ASSUME NEW r \in Replayers, NEW n \in Nodes, TriggerReplay(r, n) PROVE MarkSound'
    <3> DEFINE a == [NoReplay EXCEPT !.pc = "mark", !.node = n]
    <3>1. replay' = [replay EXCEPT ![r] = a] /\ UNCHANGED replaying
      BY <2>9 DEF TriggerReplay
    <3>2. a.pc \notin Marked
      BY DEF NoReplay, Marked
    <3> HIDE DEF a
    <3> QED BY <1>1, <2>4, <3>1, <3>2
  <2>10. ASSUME NEW r \in Replayers, MarkReplaying(r) PROVE MarkSound'
    <3>1. CASE Goto(r, After(r)) /\ UNCHANGED replaying
      <4> DEFINE rec == [replay[r] EXCEPT !.pc = After(r)]
      <4>1. replay' = [replay EXCEPT ![r] = rec] /\ rec.pc \notin Marked
        BY <1>1, <3>1 DEF Goto, After, Marked, ReplayRec
      <4> HIDE DEF rec
      <4> QED BY <2>4, <3>1, <4>1
    <3>2. CASE replay[r].node \notin replaying /\ Goto(r, "hints") /\ replaying' = replaying \cup {replay[r].node}
      <4> DEFINE rec == [replay[r] EXCEPT !.pc = "hints"]
      <4>1. replay' = [replay EXCEPT ![r] = rec] /\ rec.pc \in Marked /\ rec.node = replay[r].node
        BY <1>1, <3>2 DEF Goto, Marked, ReplayRec
      <4> HIDE DEF rec
      <4> QED BY <1>1, <3>2, <4>1, OneMark
    <3> QED BY <2>10, <3>1, <3>2 DEF MarkReplaying
  <2>11. ASSUME NEW r \in Replayers, CopyHints(r) PROVE MarkSound'
    <3> DEFINE hs == hints[replay[r].node]
    <3> DEFINE rec == [replay[r] EXCEPT !.left = hs, !.pc = IF hs = << >> THEN "unmark" ELSE "write"]
    <3>1. replay' = [replay EXCEPT ![r] = rec] /\ UNCHANGED replaying /\ replay[r].pc \in Marked
      BY <2>11 DEF CopyHints, Marked
    <3> HIDE DEF hs
    <3>2. rec.pc \in Marked /\ rec.node = replay[r].node
      BY <1>1 DEF Marked, ReplayRec
    <3> HIDE DEF rec
    <3> QED BY <2>5, <3>1, <3>2
  <2>12. ASSUME NEW r \in Replayers, ReplayHint(r) \/ ReplayStops(r) PROVE MarkSound'
    <3> DEFINE a == [replay[r] EXCEPT !.pc = "remove"]
    <3> DEFINE b == [replay[r] EXCEPT !.pc = "unmark"]
    <3>1. /\ replay' = [replay EXCEPT ![r] = a] \/ replay' = [replay EXCEPT ![r] = b]
          /\ UNCHANGED replaying /\ replay[r].pc \in Marked
      BY <2>12 DEF ReplayHint, ReplayStops, Goto, Marked
    <3>2. a.pc \in Marked /\ b.pc \in Marked /\ a.node = replay[r].node /\ b.node = replay[r].node
      BY <1>1 DEF Marked, ReplayRec
    <3> HIDE DEF a, b
    <3> QED BY <2>5, <3>1, <3>2
  <2>13. ASSUME NEW r \in Replayers, ReplayReturns(r) PROVE MarkSound'
    <3> DEFINE pc == IF Len(replay[r].left) = 1 THEN "unmark" ELSE "write"
    <3> DEFINE rec == [replay[r] EXCEPT !.left = Tail(@), !.pc = pc]
    <3>1. replay' = [replay EXCEPT ![r] = rec] /\ UNCHANGED replaying /\ replay[r].pc \in Marked
      BY <2>13 DEF ReplayReturns, Marked
    <3>2. rec.pc \in Marked /\ rec.node = replay[r].node
      BY <1>1 DEF Marked, ReplayRec
    <3> HIDE DEF rec
    <3> QED BY <2>5, <3>1, <3>2
  <2>14. ASSUME NEW r \in Replayers, Unmark(r) PROVE MarkSound'
    <3> DEFINE rec == [replay[r] EXCEPT !.pc = After(r)]
    <3>1. /\ replay' = [replay EXCEPT ![r] = rec] /\ replaying' = replaying \ {replay[r].node}
          /\ replay[r].pc \in Marked
      BY <2>14 DEF Unmark, Goto, Marked
    <3>2. rec.pc \notin Marked
      BY <1>1 DEF After, Marked, ReplayRec
    <3> HIDE DEF rec
    <3> QED BY <1>1, <3>1, <3>2, OneMark
  <2>15. ASSUME NEW lp \in Loops, Start(lp) PROVE MarkSound'
    <3> DEFINE rec == [replay[lp] EXCEPT !.pc = "check"]
    <3>1. replay' = [replay EXCEPT ![lp] = rec] /\ rec.pc \notin Marked /\ UNCHANGED replaying
      BY <1>1, <2>15 DEF Start, Goto, Marked, ReplayRec
    <3> HIDE DEF rec
    <3> QED BY <1>1, <2>4, <3>1
  <2> QED
    BY <1>2, <2>1, <2>2, <2>3, <2>6, <2>7, <2>8, <2>9, <2>10, <2>11, <2>12, <2>13, <2>14, <2>15
       DEF HandoffNext, LoopStep, ReplayStep
<1>3. CASE Crash
  <2> DEFINE a == [NoReplay EXCEPT !.pc = "check"]
  <2>1. NoReplay.pc \notin Marked /\ a.pc \notin Marked
    BY DEF NoReplay, Marked
  <2>2. replay' = [r \in Replayers |-> IF r = Loop THEN a ELSE NoReplay]
    BY <1>3 DEF Crash, Restart
  <2> HIDE DEF a
  <2> QED BY <2>1, <2>2 DEF MarkSound
<1> QED BY <1>0, <1>2, <1>3, DispatcherFrame

-----------------------------------------------------------------------------
(* The store of the hints and its file.                                    *)

\* The steps that touch the store.
LEMMA StoreFrame ==
    ASSUME [Next]_vars
    PROVE  \/ UNCHANGED storeVars
           \/ \E c \in Clients : StoreHint(c)
           \/ Cleanup
           \/ \E f \in Flushers : FlushOpen(f) \/ FlushWrite(f) \/ FlushSync(f) \/ FlushFail(f)
           \/ \E r \in Replayers : ReplayReturns(r)
           \/ Crash
<1>1. ASSUME NEW c \in Clients, NEW l \in Levels, NEW n \in 1 .. MaxBatch, NEW k \in Keys, NEW v \in Values,
             BeginPut(c, l, n, k, v)
      PROVE  UNCHANGED storeVars
  BY <1>1 DEF BeginPut
<1>2. ASSUME NEW c \in Clients, EndPut(c) PROVE UNCHANGED storeVars
  BY <1>2 DEF EndPut
<1>3. ASSUME ClientNext PROVE UNCHANGED storeVars
  BY <1>3 DEF ClientNext
<1>4. ASSUME RepairNext PROVE UNCHANGED storeVars
  BY <1>4, RepairFrame
<1>5. ASSUME UNCHANGED vars PROVE UNCHANGED storeVars
  BY <1>5 DEF vars
<1>6. ASSUME Stop \/ StopReturns \/ (\E lp \in Loops : LoopStep(lp) \/ Start(lp)) PROVE UNCHANGED storeVars
  BY <1>6 DEF LoopStep, CheckAndReplay, NextNode, LoopWakes, Stop, StopReturns, Start
<1>7. ASSUME NEW r \in Replayers, MarkReplaying(r) \/ CopyHints(r) \/ ReplayHint(r) \/ ReplayStops(r) \/ Unmark(r)
      PROVE  UNCHANGED storeVars
  BY <1>7 DEF MarkReplaying, CopyHints, ReplayHint, ReplayStops, Unmark
<1>8. ASSUME NEW r \in Replayers, NEW n \in Nodes, TriggerReplay(r, n) PROVE UNCHANGED storeVars
  BY <1>8 DEF TriggerReplay
<1> HIDE DEF storeVars
<1> QED BY <1>1, <1>2, <1>3, <1>4, <1>5, <1>6, <1>7, <1>8 DEF Next, HandoffNext, ReplayStep, FlushStep

\* SpawnFlush keeps pending within its bound, and leaves a flush to come.
LEMMA SpawnIs ==
    ASSUME pending \in 0 .. MaxPending, SpawnFlush
    PROVE  pending' \in 0 .. MaxPending /\ pending' # 0
BY HandoffAssumption DEF SpawnFlush

\* A hint that is stored: appended, and counted, unless the store is full.
LEMMA StoreHintIs ==
    ASSUME StoreType, CallType, NEW c \in Clients, StoreHint(c)
    PROVE  /\ StoreType'
           /\ ~Locked
           /\ UNCHANGED << file, flush, sound >>
           /\ UNCHANGED << hints, total, pending, clock, expired >> \/ pending' # 0
<1>1. ~Locked /\ UNCHANGED << file, flush, sound, expired >>
  BY DEF StoreHint
<1>2. CASE UNCHANGED << hints, total, pending, clock, expired >>
  BY <1>1, <1>2 DEF StoreType
<1>3. CASE ~(total + 1 > MaxHints)
  <2> DEFINE n == Head(call[c].todo)
  <2> DEFINE h == [key |-> call[c].key, val |-> call[c].val, at |-> clock + 1]
  <2> DEFINE s == Append(hints[n], h)
  <2>1. /\ clock < MaxStored /\ clock' = clock + 1
        /\ hints' = [hints EXCEPT ![n] = s]
        /\ total' = total + 1
        /\ SpawnFlush
    BY <1>3 DEF StoreHint
  <2>2. c \in Callers /\ call[c].pc # "idle" /\ call[c].todo # << >>
    BY DEF StoreHint, Callers
  <2>3. call[c].todo \in Seq(Nodes) /\ call[c].key \in Keys /\ call[c].val \in Values
    BY <2>2 DEF CallType, CallRec
  <2>4. n \in Nodes
    BY <2>2, <2>3
  <2>5. clock \in Nat /\ clock + 1 \in 0 .. MaxStored /\ expired \in 0 .. clock + 1
    BY <2>1, HandoffAssumption DEF StoreType
  <2>6. h \in Hint
    BY <2>3, <2>5 DEF Hint
  <2> HIDE DEF n, h
  <2>7. hints \in HintsOf /\ hints[n] \in Seq(Hint)
    BY <2>4 DEF StoreType, HintsOf
  <2>8. s \in Seq(Hint) /\ Len(s) = Len(hints[n]) + 1 /\ Len(hints[n]) \in Nat
    BY <2>6, <2>7, AppendProperties
  <2> HIDE DEF s
  <2>9. hints' \in HintsOf /\ HintCount(hints') = (HintCount(hints) - Len(hints[n])) + Len(s)
    BY <2>1, <2>4, <2>7, <2>8, CountExcept
  <2>10. HintCount(hints) \in Nat /\ total = HintCount(hints)
    BY <2>7, CountMonotonic DEF StoreType, HintsOf
  <2>11. total' = HintCount(hints')
    BY <2>1, <2>8, <2>9, <2>10
  <2>12. total' <= MaxHints
    BY <1>3, <2>1, <2>10, HandoffAssumption
  <2>13. pending' \in 0 .. MaxPending /\ pending' # 0
    BY <2>1, SpawnIs DEF StoreType
  <2>14. HintCount(hints)' = HintCount(hints')
    BY DEF HintCount, Places
  <2> QED BY <1>1, <2>1, <2>5, <2>9, <2>11, <2>12, <2>13, <2>14 DEF StoreType
<1> QED BY <1>1, <1>2, <1>3 DEF StoreHint

\* Hints that expire: what is left is counted.
LEMMA CleanupIs ==
    ASSUME StoreType, Cleanup
    PROVE  /\ StoreType'
           /\ ~Locked /\ pending' # 0
           /\ UNCHANGED << file, flush, sound >>
<1>1. ~Locked /\ UNCHANGED << file, flush, sound, clock >>
  BY DEF Cleanup
<1>2. PICK t \in expired .. clock :
         LET kept == [n \in Nodes |-> Filter(hints[n], {h \in SeqToSet(hints[n]) : h.at > t})]
         IN  /\ hints' = kept /\ total' = total - (HintCount(hints) - HintCount(kept))
             /\ expired' = t /\ SpawnFlush
  BY DEF Cleanup
<1> DEFINE kept == [n \in Nodes |-> Filter(hints[n], {h \in SeqToSet(hints[n]) : h.at > t})]
<1>3. hints' = kept /\ total' = total - (HintCount(hints) - HintCount(kept)) /\ expired' = t /\ SpawnFlush
  BY <1>2
<1>3a. expired' \in 0 .. clock'
  BY <1>1, <1>2, HandoffAssumption DEF StoreType
<1>4. hints \in HintsOf /\ total = HintCount(hints) /\ total <= MaxHints
  BY DEF StoreType
<1>5. ASSUME NEW n \in Nodes PROVE kept[n] \in Seq(Hint) /\ Len(kept[n]) <= Len(hints[n])
  <2> DEFINE S == {h \in SeqToSet(hints[n]) : h.at > t}
  <2>1. hints[n] \in Seq(Hint)
    BY <1>4 DEF HintsOf
  <2>2. kept[n] = Filter(hints[n], S)
    OBVIOUS
  <2> HIDE DEF kept, S
  <2> QED BY <2>1, <2>2, FilterType
<1>6. kept \in HintsOf
  <2>1. kept = [n \in Nodes |-> kept[n]]
    OBVIOUS
  <2> HIDE DEF kept
  <2> QED BY <1>5, <2>1 DEF HintsOf
<1> HIDE DEF kept
<1>7. HintCount(kept) \in Nat /\ HintCount(hints) \in Nat /\ HintCount(kept) <= HintCount(hints)
  BY <1>4, <1>5, <1>6, CountMonotonic
<1>8. total' = HintCount(kept) /\ total' <= MaxHints
  BY <1>3, <1>4, <1>7, HandoffAssumption
<1>9. HintCount(hints)' = HintCount(kept)
  BY <1>3 DEF HintCount, Places
<1>10. pending' \in 0 .. MaxPending /\ pending' # 0
  BY <1>3, SpawnIs DEF StoreType
<1> QED BY <1>1, <1>3, <1>3a, <1>6, <1>8, <1>9, <1>10 DEF StoreType

\* A hint that was replayed: every hint of the node for its key goes.
LEMMA RemoveHintIs ==
    ASSUME StoreType, ReplayType, NEW r \in Replayers, ReplayReturns(r)
    PROVE  /\ StoreType'
           /\ UNCHANGED << file, flush, sound >>
           /\ UNCHANGED << hints, total, pending, clock, expired >> \/ (~Locked /\ pending' # 0)
<1>1. UNCHANGED << file, flush, sound, clock, expired >>
  BY DEF ReplayReturns
<1>2. CASE UNCHANGED << hints, total, pending >>
  BY <1>1, <1>2 DEF StoreType
<1>3. CASE ~(~call[r].res \/ hints[replay[r].node] = << >>)
  <2> DEFINE n == replay[r].node
  <2> DEFINE S == {h \in SeqToSet(hints[n]) : h.key # call[r].key}
  <2> DEFINE kept == Filter(hints[n], S)
  <2>1. /\ ~Locked
        /\ hints' = [hints EXCEPT ![n] = kept]
        /\ total' = total - (Len(hints[n]) - Len(kept))
        /\ SpawnFlush
    BY <1>3 DEF ReplayReturns
  <2>2. n \in Nodes /\ hints \in HintsOf /\ total = HintCount(hints) /\ total <= MaxHints
    BY DEF ReplayType, ReplayRec, StoreType
  <2> HIDE DEF n, S
  <2>3. hints[n] \in Seq(Hint)
    BY <2>2 DEF HintsOf
  <2>4. kept \in Seq(Hint) /\ Len(kept) <= Len(hints[n]) /\ Len(kept) \in Nat /\ Len(hints[n]) \in Nat
    BY <2>3, FilterType
  <2> HIDE DEF kept
  <2>5. hints' \in HintsOf /\ HintCount(hints') = (HintCount(hints) - Len(hints[n])) + Len(kept)
    BY <2>1, <2>2, <2>4, CountExcept
  <2>6. HintCount(hints) \in Nat
    BY <2>2, <2>3, CountMonotonic DEF HintsOf
  <2>7. total' = HintCount(hints') /\ total' <= MaxHints
    BY <2>1, <2>2, <2>4, <2>5, <2>6, HandoffAssumption
  <2>8. HintCount(hints)' = HintCount(hints')
    BY DEF HintCount, Places
  <2>9. pending' \in 0 .. MaxPending /\ pending' # 0
    BY <2>1, SpawnIs DEF StoreType
  <2> QED BY <1>1, <2>1, <2>5, <2>7, <2>8, <2>9 DEF StoreType
<1> QED BY <1>1, <1>2, <1>3 DEF ReplayReturns

\* The file after a write of a flush is not longer than the store is large.
LEMMA SizeBounds ==
    ASSUME NEW pos \in Nat, NEW len \in Nat, NEW count \in Nat, NEW old \in Nat, NEW max \in Nat,
           pos < len, len <= count, count <= max, old <= max
    PROVE  /\ pos + 1 \in 1 .. len
           /\ (IF pos + 1 > old THEN pos + 1 ELSE old) \in Nat
           /\ (IF pos + 1 > old THEN pos + 1 ELSE old) <= max
OBVIOUS

\* The steps of a flush.
LEMMA FlushStoreStep ==
    ASSUME StoreType, FlushType, NEW f \in Flushers,
           FlushOpen(f) \/ FlushWrite(f) \/ FlushSync(f) \/ FlushFail(f)
    PROVE  StoreType' /\ UNCHANGED << hints, total, expired >>
<1>1. UNCHANGED << hints, total, clock, expired >>
  BY DEF FlushOpen, FlushWrite, FlushSync, FlushFail
<1>2. /\ hints \in HintsOf /\ total = HintCount(hints) /\ total <= MaxHints
      /\ file \in Seq(Slots) /\ Len(file) <= MaxHints
      /\ pending \in 0 .. MaxPending /\ sound \in BOOLEAN
      /\ clock \in 0 .. MaxStored /\ expired \in 0 .. clock
  BY DEF StoreType
<1>3. HintCount(hints)' = HintCount(hints)
  BY <1>1 DEF HintCount, Places
<1>4. ASSUME file' \in Seq(Slots), Len(file') <= MaxHints, pending' \in 0 .. MaxPending, sound' \in BOOLEAN
      PROVE  StoreType'
  BY <1>1, <1>2, <1>3, <1>4 DEF StoreType
<1>5. MaxPending \in Nat /\ MaxHints \in Nat
  BY HandoffAssumption
<1>6. CASE FlushOpen(f)
  <2>1. file' = << >> /\ pending > 0 /\ pending' = pending - 1 /\ UNCHANGED sound
    BY <1>6 DEF FlushOpen
  <2>2. << >> \in Seq(Slots) /\ Len(<< >>) = 0
    OBVIOUS
  <2> QED BY <1>1, <1>2, <1>4, <1>5, <2>1, <2>2
<1>7. CASE FlushWrite(f)
  <2> DEFINE p == flush[f].pos + 1
  <2> DEFINE size == IF p > Len(file) THEN p ELSE Len(file)
  <2> DEFINE out == flush[f].out
  <2>1. /\ flush[f].open /\ flush[f].pos < Len(out)
        /\ file' = [i \in 1 .. size |-> CASE i = p -> out[p]
                                          [] i # p /\ i <= Len(file) -> file[i]
                                          [] OTHER -> Hole]
        /\ UNCHANGED << pending, sound >>
    BY <1>7 DEF FlushWrite
  <2>2. flush[f].pos \in Nat /\ out \in Seq(Slot) /\ Len(out) \in Nat /\ Len(file) \in Nat
    BY <1>2 DEF FlushType, FlushRec
  <2>3. PICK o \in Orders : out = Contents(o)
    BY <2>1 DEF FlushType
  <2>4. Len(out) <= HintCount(hints) /\ HintCount(hints) \in Nat
    BY <1>2, <2>3, ContentsType, CountMonotonic DEF HintsOf
  <2>5. p \in 1 .. Len(out) /\ size \in Nat /\ size <= MaxHints
    <3>1. HintCount(hints) <= MaxHints /\ Len(file) <= MaxHints
      BY <1>2
    <3> QED BY <1>5, <2>1, <2>2, <2>4, <3>1, SizeBounds
  <2>6. out[p] \in Slots
    BY <2>2, <2>5 DEF Slots
  <2> HIDE DEF p, out
  <2>7. \A i \in 1 .. Len(file) : file[i] \in Slots
    BY <1>2
  <2>8. file' \in [1 .. size -> Slots]
    <3>1. Hole \in Slots
      BY DEF Slots
    <3>2. ASSUME NEW i \in 1 .. size
          PROVE  (CASE i = p -> out[p] [] i # p /\ i <= Len(file) -> file[i] [] OTHER -> Hole) \in Slots
      <4>1. i # p /\ i <= Len(file) => i \in 1 .. Len(file)
        BY <2>2
      <4> QED BY <2>6, <2>7, <3>1, <4>1
    <3> HIDE DEF size
    <3> QED BY <2>1, <3>2
  <2> HIDE DEF size
  <2>9. file' \in Seq(Slots) /\ Len(file') = size
    BY <2>5, <2>8
  <2> QED BY <1>1, <1>2, <1>4, <2>1, <2>5, <2>9
<1>8. CASE FlushSync(f) \/ FlushFail(f)
  <2>1. UNCHANGED << file, pending >> /\ sound' \in {flush[f].alone, FALSE}
    BY <1>8 DEF FlushSync, FlushFail
  <2>2. flush[f].alone \in BOOLEAN
    BY DEF FlushType, FlushRec
  <2> QED BY <1>1, <1>2, <1>4, <2>1, <2>2
<1> QED BY <1>1, <1>6, <1>7, <1>8

\* The process dies: load counts what it reads.
LEMMA CrashStoreStep ==
    ASSUME StoreType, Crash
    PROVE  StoreType' /\ hints' = Loaded(file, expired') /\ UNCHANGED file
<1>1. PICK t \in expired .. clock :
         hints' = Loaded(file, t) /\ total' = HintCount(Loaded(file, t)) /\ expired' = t
  BY DEF Crash, Restart
<1>2. pending' = 0 /\ sound' = TRUE /\ UNCHANGED << file, clock >>
  BY DEF Crash, Restart
<1>3. file \in Seq(Slots) /\ Len(file) <= MaxHints /\ Len(file) \in Nat
  BY DEF StoreType
<1>4. /\ Loaded(file, t) \in HintsOf /\ HintCount(Loaded(file, t)) \in Nat
      /\ HintCount(Loaded(file, t)) <= MaxHints
  BY <1>3, LoadedType, HandoffAssumption
<1>5. HintCount(hints)' = HintCount(Loaded(file, t))
  BY <1>1 DEF HintCount, Places
<1>6. 0 \in 0 .. MaxPending /\ t \in 0 .. clock
  BY <1>1, HandoffAssumption DEF StoreType
<1> HIDE DEF Loaded
<1>7. StoreType'
  BY <1>1, <1>2, <1>3, <1>4, <1>5, <1>6 DEF StoreType
<1> QED BY <1>1, <1>2, <1>7

\* The store keeps its books at every step.
LEMMA StoreStep ==
    ASSUME StoreType, FlushType, CallType, ReplayType, [Next]_vars
    PROVE  StoreType'
<1>1. ASSUME UNCHANGED storeVars PROVE StoreType'
  <2>1. HintCount(hints)' = HintCount(hints)
    BY <1>1 DEF HintCount, Places
  <2> QED BY <1>1, <2>1 DEF StoreType
<1> HIDE DEF storeVars
<1> QED BY <1>1, StoreFrame, StoreHintIs, CleanupIs, FlushStoreStep, RemoveHintIs, CrashStoreStep

\* Where the hints of a node come from: they were there, a request has stored
\* one for a replica that is not alive, or load has read them.
StoredBy(c, h) == StoreHint(c) /\ h = [key |-> call[c].key, val |-> call[c].val, at |-> clock + 1]
HintOrigin(n, h) ==
    \/ (\E i \in DOMAIN hints[n] : h = hints[n][i]) /\ (UNCHANGED expired \/ h.at > expired')
    \/ (\E c \in Clients : StoredBy(c, h)) /\ UNCHANGED expired
    \/ Crash /\ (\E i \in DOMAIN file : file[i] # Hole /\ h = file[i].hint) /\ h.at > expired'

\* The steps that change the hints, one by one.
LEMMA HintsComeFrom ==
    ASSUME StoreType, FlushType, CallType, ReplayType, [Next]_vars, NEW n \in Nodes, NEW i \in DOMAIN hints'[n]
    PROVE  HintOrigin(n, hints'[n][i])
<1> DEFINE x == hints'[n][i]
<1>0. hints \in HintsOf /\ hints[n] \in Seq(Hint)
  BY DEF StoreType, HintsOf
<1>1. ASSUME UNCHANGED << hints, expired >> PROVE HintOrigin(n, x)
  BY <1>1 DEF HintOrigin
<1>2. ASSUME NEW c \in Clients, StoreHint(c) PROVE HintOrigin(n, x)
  <2>1. CASE UNCHANGED << hints, total, pending, clock >>
    BY <1>1, <1>2, <2>1 DEF StoreHint
  <2>2. CASE ~(total + 1 > MaxHints)
    <3> DEFINE m == Head(call[c].todo)
    <3> DEFINE h == [key |-> call[c].key, val |-> call[c].val, at |-> clock + 1]
    <3>1. hints' = [hints EXCEPT ![m] = Append(hints[m], h)] /\ UNCHANGED expired
      BY <1>2, <2>2 DEF StoreHint
    <3>2. StoredBy(c, h)
      BY <1>2 DEF StoredBy
    <3> HIDE DEF h, m
    <3>3. CASE m # n
      BY <1>0, <3>1, <3>3 DEF HintOrigin, HintsOf
    <3>4. CASE m = n
      <4>1. hints'[n] = Append(hints[n], h)
        BY <1>0, <3>1, <3>4 DEF HintsOf
      <4>2. x = h \/ \E j \in DOMAIN hints[n] : x = hints[n][j]
        BY <1>0, <4>1
      <4> QED BY <3>1, <3>2, <4>2 DEF HintOrigin
    <3> QED BY <3>3, <3>4
  <2> QED BY <1>2, <2>1, <2>2 DEF StoreHint
<1>3. ASSUME Cleanup PROVE HintOrigin(n, x)
  <2>1. PICK t \in expired .. clock :
           /\ hints' = [m \in Nodes |-> Filter(hints[m], {h \in SeqToSet(hints[m]) : h.at > t})]
           /\ expired' = t
    BY <1>3 DEF Cleanup
  <2> DEFINE S == {h \in SeqToSet(hints[n]) : h.at > t}
  <2>2. hints'[n] = Filter(hints[n], S)
    BY <2>1
  <2>3. x \in S
    <3> HIDE DEF S
    <3>1. Filter(hints[n], S) \in Seq(Hint) /\ \A j \in 1 .. Len(Filter(hints[n], S)) : Filter(hints[n], S)[j] \in S
      BY <1>0, FilterType
    <3> QED BY <2>2, <3>1
  <2> QED BY <2>1, <2>3 DEF HintOrigin, SeqToSet
<1>4. ASSUME NEW f \in Flushers, FlushOpen(f) \/ FlushWrite(f) \/ FlushSync(f) \/ FlushFail(f)
      PROVE  HintOrigin(n, x)
  BY <1>1, <1>4, FlushStoreStep
<1>5. ASSUME NEW r \in Replayers, ReplayReturns(r) PROVE HintOrigin(n, x)
  <2> DEFINE m == replay[r].node
  <2> DEFINE S == {h \in SeqToSet(hints[m]) : h.key # call[r].key}
  <2>1. UNCHANGED expired /\ (UNCHANGED hints \/ hints' = [hints EXCEPT ![m] = Filter(hints[m], S)])
    BY <1>5 DEF ReplayReturns
  <2>2. m \in Nodes
    BY DEF ReplayType, ReplayRec
  <2> HIDE DEF m
  <2>3. CASE UNCHANGED hints
    BY <1>1, <2>1, <2>3
  <2>4. CASE hints' = [hints EXCEPT ![m] = Filter(hints[m], S)] /\ m # n
    BY <1>0, <2>1, <2>4 DEF HintOrigin, HintsOf
  <2>5. CASE hints' = [hints EXCEPT ![m] = Filter(hints[m], S)] /\ m = n
    <3>1. hints'[n] = Filter(hints[n], S)
      BY <1>0, <2>5 DEF HintsOf
    <3>2. x \in S
      <4> HIDE DEF S
      <4>1. Filter(hints[n], S) \in Seq(Hint) /\ \A j \in 1 .. Len(Filter(hints[n], S)) : Filter(hints[n], S)[j] \in S
        BY <1>0, FilterType
      <4> QED BY <3>1, <4>1
    <3> QED BY <2>1, <2>5, <3>2 DEF HintOrigin, SeqToSet
  <2> QED BY <2>1, <2>3, <2>4, <2>5
<1>6. ASSUME Crash PROVE HintOrigin(n, x)
  <2>1. file \in Seq(Slots) /\ hints' = Loaded(file, expired')
    BY <1>6, CrashStoreStep DEF StoreType
  <2>2. i \in DOMAIN Loaded(file, expired')[n] /\ x = Loaded(file, expired')[n][i]
    BY <2>1
  <2> HIDE DEF x
  <2>3. \E j \in DOMAIN file : file[j] # Hole /\ x = file[j].hint /\ file[j].hint.at > expired'
    BY <2>1, <2>2, LoadedFrom
  <2> QED BY <1>6, <2>3 DEF HintOrigin
<1>7. ASSUME UNCHANGED storeVars PROVE HintOrigin(n, x)
  BY <1>1, <1>7
<1> HIDE DEF storeVars, x
<1>8. HintOrigin(n, x)
  BY <1>2, <1>3, <1>4, <1>5, <1>6, <1>7, StoreFrame
<1> QED BY <1>8 DEF x

\* A hint that is too old does not come back.
LEMMA FreshStep ==
    ASSUME StoreType, FlushType, CallType, ReplayType, Fresh, [Next]_vars
    PROVE  Fresh'
<1> SUFFICES ASSUME NEW n \in Nodes, NEW i \in DOMAIN hints'[n] PROVE hints'[n][i].at > expired'
  BY DEF Fresh
<1> DEFINE x == hints'[n][i]
<1>1. HintOrigin(n, x)
  BY HintsComeFrom
<1>2. clock + 1 > expired
  BY HandoffAssumption DEF StoreType
<1> HIDE DEF x
<1>3. x.at > expired'
  BY <1>1, <1>2 DEF HintOrigin, StoredBy, Fresh
<1> QED BY <1>3 DEF x

-----------------------------------------------------------------------------
(* The flushes.                                                            *)

\* What a flush writes depends on the hints only.
LEMMA ContentsKept ==
    ASSUME UNCHANGED hints
    PROVE  \A o : Contents(o)' = Contents(o)
BY DEF Contents, Tagged

\* The hints change only while no flush is open.
LEMMA FlushKept ==
    ASSUME FlushType, UNCHANGED << file, flush >>, UNCHANGED hints \/ ~Locked
    PROVE  FlushType'
<1>1. ASSUME NEW f \in Flushers, flush[f].open PROVE UNCHANGED hints
  BY <1>1 DEF Locked
<1>2. ASSUME NEW f \in Flushers, flush'[f].open PROVE (\E o \in Orders : flush[f].out = Contents(o))'
  <2>1. PICK o \in Orders : flush[f].out = Contents(o)
    BY <1>2 DEF FlushType
  <2>2. Contents(o)' = Contents(o)
    BY <1>1, <1>2, ContentsKept
  <2> QED BY <2>1, <2>2
<1> QED BY <1>2 DEF FlushType

\* A flush that is not open.
LEMMA NoFlushIs == NoFlush \in FlushRec /\ NoFlush.open = FALSE /\ NoFlush.pos = 0 /\ Len(NoFlush.out) = 0
BY DEF NoFlush, FlushRec

\* A flush opens: whoever else is open is not alone any more.
LEMMA FlushOpenIs ==
    ASSUME StoreType, FlushType, NEW f \in Flushers, FlushOpen(f)
    PROVE  FlushType' /\ Locked'
<1>1. PICK o \in Orders :
        flush' = [g \in Flushers |->
            IF g = f THEN [open |-> TRUE, out |-> Contents(o), pos |-> 0, alone |-> ~Locked]
            ELSE [flush[g] EXCEPT !.alone = FALSE]]
  BY DEF FlushOpen
<1>2. file' = << >> /\ UNCHANGED hints
  BY DEF FlushOpen
<1> DEFINE out == Contents(o)
<1>3. out \in Seq(Slot) /\ Len(out) \in Nat
  BY ContentsType DEF StoreType
<1>4. \A p : Contents(p)' = Contents(p)
  BY <1>2, ContentsKept
<1> HIDE DEF out
<1>5. \A g \in Flushers : g # f => flush'[g] = [flush[g] EXCEPT !.alone = FALSE]
  BY <1>1
<1>6. flush'[f] = [open |-> TRUE, out |-> out, pos |-> 0, alone |-> ~Locked]
  BY <1>1 DEF out
<1>7. \A g \in Flushers : flush[g] \in FlushRec
  BY DEF FlushType
<1>8. \A g \in Flushers : g # f =>
        /\ flush'[g] \in FlushRec /\ flush'[g].alone = FALSE
        /\ flush'[g].open = flush[g].open /\ flush'[g].out = flush[g].out /\ flush'[g].pos = flush[g].pos
  BY <1>5, <1>7 DEF FlushRec
<1>9. Locked \in BOOLEAN
  BY DEF Locked
<1>10. flush'[f] \in FlushRec
  BY <1>3, <1>6, <1>9 DEF FlushRec
<1>11. flush' \in [Flushers -> FlushRec]
  <2>1. DOMAIN flush' = Flushers /\ flush' = [g \in Flushers |-> flush'[g]]
    BY <1>1
  <2>2. \A g \in Flushers : flush'[g] \in FlushRec
    BY <1>8, <1>10
  <2> QED BY <2>1, <2>2
<1>12. \A g \in Flushers : flush'[g].pos <= Len(flush'[g].out)
  BY <1>3, <1>6, <1>8 DEF FlushType
<1>13. ASSUME NEW g \in Flushers, flush'[g].open PROVE \E p \in Orders : flush'[g].out = Contents(p)'
  <2>1. CASE g = f
    BY <1>4, <1>6, <2>1 DEF out
  <2>2. CASE g # f
    <3>1. PICK p \in Orders : flush[g].out = Contents(p)
      BY <1>8, <1>13, <2>2 DEF FlushType
    <3> QED BY <1>4, <1>8, <2>2, <3>1
  <2> QED BY <2>1, <2>2
<1>14. ASSUME NEW g \in Flushers, flush'[g].open, flush'[g].alone
       PROVE  /\ \A h \in Flushers : flush'[h].open => h = g
              /\ file' = SubSeq(flush'[g].out, 1, flush'[g].pos)
  <2>1. g = f /\ ~Locked
    <3>1. g = f
      BY <1>8, <1>14
    <3>2. flush'[f].alone = ~Locked
      BY <1>6, <1>9
    <3> QED BY <1>14, <3>1, <3>2
  <2>2. \A h \in Flushers : flush'[h].open => h = g
    BY <1>8, <2>1 DEF Locked
  <2>3. SubSeq(out, 1, 0) = << >>
    BY <1>3
  <2> QED BY <1>2, <1>6, <2>1, <2>2, <2>3
<1>15. Locked'
  BY <1>6 DEF Locked
<1> QED BY <1>11, <1>12, <1>13, <1>14, <1>15 DEF FlushType

\* A flush ends: the others are as alone as they were.
LEMMA FlushEndIs ==
    ASSUME FlushType, NEW f \in Flushers, flush' = [flush EXCEPT ![f] = NoFlush], UNCHANGED << file, hints >>
    PROVE  FlushType'
<1>1. \A o : Contents(o)' = Contents(o)
  BY ContentsKept
<1>2. \A g \in Flushers : g # f => flush'[g] = flush[g]
  BY DEF FlushType
<1>3. flush'[f] = NoFlush
  BY DEF FlushType
<1>4. flush' \in [Flushers -> FlushRec]
  BY NoFlushIs DEF FlushType
<1>5. \A g \in Flushers : flush'[g].pos <= Len(flush'[g].out)
  BY <1>2, <1>3, NoFlushIs DEF FlushType
<1>6. ASSUME NEW g \in Flushers, flush'[g].open PROVE \E p \in Orders : flush'[g].out = Contents(p)'
  BY <1>1, <1>2, <1>3, <1>6, NoFlushIs DEF FlushType
<1>7. ASSUME NEW g \in Flushers, flush'[g].open, flush'[g].alone
      PROVE  /\ \A h \in Flushers : flush'[h].open => h = g
             /\ file' = SubSeq(flush'[g].out, 1, flush'[g].pos)
  <2>1. g # f
    BY <1>3, <1>7, NoFlushIs
  <2> QED BY <1>2, <1>3, <1>7, <2>1, NoFlushIs DEF FlushType
<1> QED BY <1>4, <1>5, <1>6, <1>7 DEF FlushType

\* A flush writes its next line: alone, at the end of the file.
LEMMA FlushWriteIs ==
    ASSUME StoreType, FlushType, NEW f \in Flushers, FlushWrite(f)
    PROVE  FlushType' /\ Locked'
<1> DEFINE pos == flush[f].pos
<1> DEFINE out == flush[f].out
<1> DEFINE p == pos + 1
<1> DEFINE size == IF p > Len(file) THEN p ELSE Len(file)
<1>1. /\ flush[f].open /\ pos < Len(out)
      /\ file' = [i \in 1 .. size |-> CASE i = p -> out[p]
                                        [] i # p /\ i <= Len(file) -> file[i]
                                        [] OTHER -> Hole]
      /\ flush' = [flush EXCEPT ![f].pos = p]
      /\ UNCHANGED hints
  BY DEF FlushWrite
<1>2. \A g \in Flushers : flush[g] \in FlushRec
  BY DEF FlushType
<1>3. pos \in Nat /\ out \in Seq(Slot) /\ Len(out) \in Nat /\ p \in Nat /\ p <= Len(out)
  BY <1>1, <1>2 DEF FlushRec
<1>4. \A o : Contents(o)' = Contents(o)
  BY <1>1, ContentsKept
<1>5. \A g \in Flushers : g # f => flush'[g] = flush[g]
  BY <1>1 DEF FlushType
<1>6. /\ flush'[f].open = flush[f].open /\ flush'[f].out = out /\ flush'[f].pos = p
      /\ flush'[f].alone = flush[f].alone /\ flush'[f] \in FlushRec
  BY <1>1, <1>2, <1>3 DEF FlushRec, FlushType
<1>7. flush' \in [Flushers -> FlushRec]
  BY <1>1, <1>6 DEF FlushType
<1>8. \A g \in Flushers : flush'[g].pos <= Len(flush'[g].out)
  BY <1>3, <1>5, <1>6 DEF FlushType
<1>9. ASSUME NEW g \in Flushers, flush'[g].open PROVE \E o \in Orders : flush'[g].out = Contents(o)'
  BY <1>1, <1>4, <1>5, <1>6, <1>9 DEF FlushType
<1>10. ASSUME NEW g \in Flushers, flush'[g].open, flush'[g].alone
       PROVE  /\ \A h \in Flushers : flush'[h].open => h = g
              /\ file' = SubSeq(flush'[g].out, 1, flush'[g].pos)
  <2>1. \A h \in Flushers : flush'[h].open = flush[h].open /\ flush'[h].alone = flush[h].alone
    BY <1>5, <1>6
  <2>2. \A h \in Flushers : flush'[h].open => h = g
    BY <1>10, <2>1 DEF FlushType
  <2>3. g = f
    BY <1>1, <2>1, <2>2
  <2>4. file = SubSeq(out, 1, pos)
    BY <1>1, <1>10, <2>1, <2>3 DEF FlushType
  <2> HIDE DEF pos, out
  <2>5. Len(file) = pos /\ \A i \in 1 .. pos : file[i] = out[i]
    BY <1>1, <1>3, <2>4
  <2>6. size = p
    BY <1>3, <2>5
  <2>7. \A i \in 1 .. p : file'[i] = out[i]
    <3>1. file' = [i \in 1 .. p |-> CASE i = p -> out[p]
                                      [] i # p /\ i <= pos -> file[i]
                                      [] OTHER -> Hole]
      BY <1>1, <2>5, <2>6
    <3>2. ASSUME NEW i \in 1 .. p PROVE file'[i] = out[i]
      <4>1. CASE i = p
        BY <3>1, <4>1
      <4>2. CASE i # p
        <5>1. i <= pos /\ i \in 1 .. pos
          BY <1>3, <4>2
        <5>2. file'[i] = file[i]
          BY <3>1, <4>2, <5>1
        <5> QED BY <2>5, <5>1, <5>2
      <4> QED BY <4>1, <4>2
    <3> QED BY <3>2
  <2>8. DOMAIN file' = 1 .. p /\ file' = [i \in 1 .. p |-> file'[i]]
    BY <1>1, <2>6
  <2> HIDE DEF p
  <2>9. SubSeq(out, 1, p) = [i \in 1 .. p |-> out[i]]
    BY <1>3
  <2>10. file' = SubSeq(out, 1, p)
    BY <2>7, <2>8, <2>9
  <2> QED BY <1>6, <2>2, <2>3, <2>10 DEF p, out, pos
<1>11. Locked'
  BY <1>1, <1>6 DEF Locked
<1> QED BY <1>7, <1>8, <1>9, <1>10, <1>11 DEF FlushType

\* The process dies: no flush is open.
LEMMA FlushNone ==
    ASSUME flush' = [f \in Flushers |-> NoFlush]
    PROVE  FlushType'
<1>1. \A f \in Flushers : flush'[f] = NoFlush
  OBVIOUS
<1>2. flush' \in [Flushers -> FlushRec]
  BY NoFlushIs
<1> QED BY <1>1, <1>2, NoFlushIs DEF FlushType

\* The flushes go on writing the hints of the store.
LEMMA FlushTypeStep ==
    ASSUME StoreType, FlushType, CallType, ReplayType, [Next]_vars
    PROVE  FlushType'
<1>1. ASSUME UNCHANGED storeVars PROVE FlushType'
  BY <1>1, FlushKept
<1>2. ASSUME NEW c \in Clients, StoreHint(c) PROVE FlushType'
  BY <1>2, FlushKept, StoreHintIs
<1>3. ASSUME Cleanup PROVE FlushType'
  BY <1>3, FlushKept, CleanupIs
<1>4. ASSUME NEW r \in Replayers, ReplayReturns(r) PROVE FlushType'
  BY <1>4, FlushKept, RemoveHintIs
<1>5. ASSUME NEW f \in Flushers, FlushSync(f) \/ FlushFail(f) PROVE FlushType'
  <2>1. flush' = [flush EXCEPT ![f] = NoFlush] /\ UNCHANGED << file, hints >>
    BY <1>5 DEF FlushSync, FlushFail
  <2> QED BY <2>1, FlushEndIs
<1>6. ASSUME Crash PROVE FlushType'
  <2>1. flush' = [f \in Flushers |-> NoFlush]
    BY <1>6 DEF Crash, Restart
  <2> QED BY <2>1, FlushNone
<1> HIDE DEF storeVars
<1> QED BY <1>1, <1>2, <1>3, <1>4, <1>5, <1>6, StoreFrame, FlushOpenIs, FlushWriteIs

\* A flush that was alone when it ended leaves a file that loads to the hints;
\* whatever changes the hints leaves a flush that has not begun.
LEMMA QuietStep ==
    ASSUME StoreType, FlushType, CallType, ReplayType, Fresh, QuietFileLoads, [Next]_vars
    PROVE  QuietFileLoads'
<1>1. ASSUME UNCHANGED << hints, file, flush, pending, sound, expired >> PROVE QuietFileLoads'
  <2>1. Locked' = Locked
    BY <1>1 DEF Locked
  <2>2. Loaded(file, expired)' = Loaded(file, expired)
    BY <1>1 DEF Loaded, LinesOf
  <2> QED BY <1>1, <2>1, <2>2 DEF QuietFileLoads
<1>2. ASSUME pending' # 0 PROVE QuietFileLoads'
  BY <1>2 DEF QuietFileLoads
<1>3. ASSUME NEW c \in Clients, StoreHint(c) PROVE QuietFileLoads'
  BY <1>1, <1>2, <1>3, StoreHintIs
<1>4. ASSUME Cleanup PROVE QuietFileLoads'
  BY <1>2, <1>4, CleanupIs
<1>5. ASSUME NEW r \in Replayers, ReplayReturns(r) PROVE QuietFileLoads'
  BY <1>1, <1>2, <1>5, RemoveHintIs
<1>6. ASSUME Locked' PROVE QuietFileLoads'
  BY <1>6 DEF QuietFileLoads
<1>7. ASSUME NEW f \in Flushers, FlushFail(f) PROVE QuietFileLoads'
  BY <1>7 DEF FlushFail, QuietFileLoads
<1>8. ASSUME NEW f \in Flushers, FlushSync(f) PROVE QuietFileLoads'
  <2>1. /\ flush[f].open /\ flush[f].pos = Len(flush[f].out)
        /\ sound' = flush[f].alone /\ UNCHANGED << hints, file, expired >>
    BY <1>8 DEF FlushSync
  <2>2. CASE ~flush[f].alone
    BY <2>1, <2>2 DEF QuietFileLoads
  <2>3. CASE flush[f].alone
    <3> DEFINE out == flush[f].out
    <3>1. file = SubSeq(out, 1, Len(out)) /\ out \in Seq(Slot)
      BY <2>1, <2>3 DEF FlushType, FlushRec
    <3>2. PICK o \in Orders : out = Contents(o)
      BY <2>1 DEF FlushType
    <3>3. file = out
      BY <3>1
    <3>4. Loaded(Contents(o), expired) = hints
      <4>1. hints \in HintsOf /\ \A n \in Nodes : \A i \in 1 .. Len(hints[n]) : hints[n][i].at > expired
        BY DEF StoreType, Fresh, HintsOf
      <4> QED BY <4>1, LoadedContents
    <3>5. Loaded(file, expired)' = Loaded(file, expired)
      BY <2>1 DEF Loaded, LinesOf
    <3> QED BY <2>1, <3>2, <3>3, <3>4, <3>5 DEF QuietFileLoads
  <2> QED BY <2>2, <2>3
<1>9. ASSUME Crash PROVE QuietFileLoads'
  <2>1. hints' = Loaded(file, expired') /\ UNCHANGED file
    BY <1>9, CrashStoreStep
  <2>2. Loaded(file, expired)' = Loaded(file, expired')
    BY <2>1 DEF Loaded, LinesOf
  <2> QED BY <2>1, <2>2 DEF QuietFileLoads
<1>10. ASSUME UNCHANGED storeVars PROVE QuietFileLoads'
  BY <1>1, <1>10
<1> HIDE DEF storeVars
<1> QED BY <1>3, <1>4, <1>5, <1>6, <1>7, <1>8, <1>9, <1>10, StoreFrame, FlushOpenIs, FlushWriteIs

-----------------------------------------------------------------------------
(* Reads and repairs.                                                      *)

\* Requests and the handoff leave reads and repairs alone.
LEMMA ReadFrame ==
    ASSUME [Next]_vars, ~RepairNext, ~Crash
    PROVE  UNCHANGED << read, repairVars >>
<1>1. ASSUME NEW c \in Clients, NEW l \in Levels, NEW n \in 1 .. MaxBatch, NEW k \in Keys, NEW v \in Values,
             BeginPut(c, l, n, k, v)
      PROVE  UNCHANGED << read, repairVars >>
  BY <1>1 DEF BeginPut
<1>2. ASSUME NEW c \in Clients, EndPut(c) PROVE UNCHANGED << read, repairVars >>
  BY <1>2 DEF EndPut
<1>3. ASSUME ClientNext PROVE UNCHANGED << read, repairVars >>
  BY <1>3 DEF ClientNext
<1>4. ASSUME HandoffNext PROVE UNCHANGED << read, repairVars >>
  BY <1>4 DEF HandoffNext
<1>5. CASE UNCHANGED vars
  BY <1>5 DEF vars
<1> QED BY <1>1, <1>2, <1>3, <1>4, <1>5 DEF Next

\* A reader that reads nothing.
LEMMA NoReadIs == NoRead \in ReadRec /\ ReadSound(NoRead)
<1>1. NoRead \in ReadRec
  BY DEF NoRead, ReadRec, OptKeys, OptValues
<1>2. IsFiniteSet({})
  BY FS_EmptySet
<1> QED BY <1>1, <1>2 DEF NoRead, ReadSound

\* One read goes on.
LEMMA OneRead ==
    ASSUME ReadType, NEW r \in Readers, NEW x \in ReadRec, ReadSound(x), read' = [read EXCEPT ![r] = x]
    PROVE  ReadType'
BY DEF ReadType

\* A read asks the alive replicas.
LEMMA ReadBegins ==
    ASSUME ReadType, GhostType, NEW r \in Readers, NEW k \in Keys, ReadWithResponses(r, k)
    PROVE  ReadType'
<1> DEFINE R == AliveReplicas(k)
<1> DEFINE x == [NoRead EXCEPT !.pc = "send", !.key = k, !.expect = acked[k], !.sent = R, !.wait = R]
<1>1. read' = [read EXCEPT ![r] = x]
  BY DEF ReadWithResponses
<1>2. R \subseteq Nodes
  BY ReplicaFacts
<1>3. acked[k] \in OptValues
  BY DEF GhostType
<1> HIDE DEF R
<1>4. x \in ReadRec
  BY <1>2, <1>3, NoReadIs DEF ReadRec, OptKeys
<1>5. ReadSound(x)
  BY <1>2, NoReadIs DEF ReadSound, NoRead
<1> HIDE DEF x
<1> QED BY <1>1, <1>4, <1>5, OneRead

\* A replica answers, or does not.
LEMMA ReadAnswers ==
    ASSUME ReadType, DataType, NEW r \in Readers, NEW n \in Nodes, ReplicaRead(r, n)
    PROVE  ReadType'
<1> DEFINE x == read[r]
<1>1. /\ x \in ReadRec /\ x.wait \subseteq x.sent /\ IsFiniteSet(x.resp)
      /\ \A a \in x.resp : a.node \in x.sent \ x.wait
      /\ x.pc # "idle" => x.key \in Keys
  BY DEF ReadType, ReadSound
<1>2. x.pc = "send" /\ n \in x.wait
  BY DEF ReplicaRead
<1> DEFINE a == [node |-> n, val |-> data[n][x.key]]
<1> DEFINE silent == [x EXCEPT !.wait = @ \ {n}]
<1> DEFINE heard == [x EXCEPT !.wait = @ \ {n}, !.resp = @ \cup {a}]
<1>3. read' = [read EXCEPT ![r] = heard] \/ read' = [read EXCEPT ![r] = silent]
  BY DEF ReplicaRead, ReadType, ReadRec
<1>4. a \in Answer
  BY <1>1, <1>2 DEF DataType, Answer
<1>5. a.node = n
  OBVIOUS
<1> HIDE DEF a, x
<1>6. silent \in ReadRec /\ ReadSound(silent)
  BY <1>1, <1>2 DEF ReadRec, ReadSound
<1>7. IsFiniteSet(x.resp \cup {a})
  BY <1>1, FS_AddElement
<1>8. heard \in ReadRec
  BY <1>1, <1>4 DEF ReadRec
<1>9. heard.wait = x.wait \ {n} /\ heard.resp = x.resp \cup {a} /\ heard.sent = x.sent /\ heard.pc = "send" /\ heard.key = x.key
  BY <1>1, <1>2 DEF ReadRec
<1> HIDE DEF silent, heard
<1>10. ReadSound(heard)
  BY <1>1, <1>2, <1>5, <1>7, <1>9 DEF ReadSound
<1> QED BY <1>3, <1>6, <1>8, <1>10, OneRead

\* The answers are counted up to the quorum.
LEMMA ReadCounts ==
    ASSUME ReadType, ConfigType, NEW r \in Readers, ReadQuorum(r)
    PROVE  ReadType'
<1> DEFINE x == read[r]
<1> DEFINE g == Lesser(Cardinality(x.resp), cfg.rq)
<1> DEFINE y == [x EXCEPT !.pc = "check", !.got = g]
<1>1. x \in ReadRec /\ ReadSound(x) /\ IsFiniteSet(x.resp)
  BY DEF ReadType, ReadSound
<1>2. read' = [read EXCEPT ![r] = y] /\ x.pc = "send"
  BY DEF ReadQuorum, ReadType, ReadRec
<1>3. g \in Nat
  <2>1. Cardinality(x.resp) \in Nat
    BY <1>1, FS_CardinalityType
  <2>2. cfg.rq \in Nat
    BY CoordinatorAssumption DEF ConfigType, Config
  <2> QED BY <2>1, <2>2 DEF Lesser
<1> HIDE DEF x, g
<1>4. y \in ReadRec /\ ReadSound(y)
  BY <1>1, <1>2, <1>3 DEF ReadRec, ReadSound
<1> HIDE DEF y
<1> QED BY <1>2, <1>4, OneRead

\* The reads at every step.
LEMMA ReadTypeStep ==
    ASSUME ReadType, ConfigType, DataType, GhostType, [Next]_vars
    PROVE  ReadType'
<1>0. ASSUME UNCHANGED read PROVE ReadType'
  BY <1>0 DEF ReadType
<1>1. ASSUME NEW r \in Readers, ReadReturns(r) PROVE ReadType'
  BY <1>1, NoReadIs, OneRead DEF ReadReturns
<1>2. CASE RepairNext
  <2>1. ASSUME NEW r \in Readers, ReadStep(r) PROVE ReadType'
    BY <1>1, <2>1, ReadAnswers, ReadCounts DEF ReadStep
  <2>2. ASSUME NEW w \in Workers, WorkerStep(w) PROVE ReadType'
    BY <1>0, <2>2 DEF WorkerStep, WorkerTurn, Dequeue, RateAllow, RepairWrite, RepairDone
  <2>3. ASSUME WindowEnds \/ StopScheduler \/ SchedulerStopped \/ StartScheduler PROVE ReadType'
    BY <1>0, <2>3 DEF WindowEnds, StopScheduler, SchedulerStopped, StartScheduler
  <2>4. ASSUME NEW s \in StatsCallers, StatsBegin(s) \/ StatsEnd(s) PROVE ReadType'
    BY <1>0, <2>4 DEF StatsBegin, StatsEnd
  <2> QED BY <1>2, <2>1, <2>2, <2>3, <2>4, ReadBegins DEF RepairNext
<1>3. CASE Crash
  <2>1. read' = [r \in Readers |-> NoRead]
    BY <1>3 DEF Crash
  <2> QED BY <2>1, NoReadIs DEF ReadType
<1> QED BY <1>0, <1>2, <1>3, ReadFrame

\* The repair a detector schedules has a value and targets.
LEMMA RepairsAre ==
    ASSUME ReadType, NEW r \in Readers, read[r].pc # "idle"
    PROVE  Repairs(r) \subseteq Task
<1>1. read[r].key \in Keys /\ read[r].resp \subseteq Answer
  BY DEF ReadType, ReadSound, ReadRec
<1>2. \A v : Group(r, v) \subseteq Nodes
  BY <1>1 DEF Group, Answer
<1>3. MajorityValue(r) \subseteq Values
  BY DEF MajorityValue, MergeReadResponses, Answered
<1>4. \A v : UNION {Group(r, u) : u \in Answered(r) \ {v}} \subseteq Nodes
  BY <1>2
<1>5. ASSUME NEW t \in Repairs(r) PROVE t \in Task
  <2>1. PICK v \in MajorityValue(r) :
          t = [key |-> read[r].key, val |-> v, targets |-> UNION {Group(r, u) : u \in Answered(r) \ {v}}]
    BY <1>5 DEF Repairs
  <2> DEFINE T == UNION {Group(r, u) : u \in Answered(r) \ {v}}
  <2>2. T \subseteq Nodes
    BY <1>4
  <2>3. t = [key |-> read[r].key, val |-> v, targets |-> T]
    BY <2>1
  <2> HIDE DEF T
  <2> QED BY <1>1, <1>3, <2>1, <2>2, <2>3 DEF Task
<1> QED BY <1>5

\* A worker without a task.
WorkerRec == [pc : WorkerPCs, task : Task \cup {NoTask}]
WorkerSound(x) == x.pc \in {"rate", "write"} => x.task \in Task

LEMMA OffIs == Off \in WorkerRec /\ WorkerSound(Off)
BY DEF Off, WorkerRec, WorkerSound, WorkerPCs

\* One worker goes on.
LEMMA OneWorker ==
    ASSUME RepairType, NEW w \in Workers, NEW x \in WorkerRec, WorkerSound(x),
           worker' = [worker EXCEPT ![w] = x], queue' \in Seq(Task), ops' \in 0 .. MaxRate,
           UNCHANGED << sched, stats >>
    PROVE  RepairType'
BY DEF RepairType, WorkerRec, WorkerSound

\* The workers.
LEMMA WorkerTypeStep ==
    ASSUME RepairType, NEW w \in Workers, WorkerStep(w)
    PROVE  RepairType'
<1> DEFINE x == worker[w]
<1>1. x \in WorkerRec /\ WorkerSound(x) /\ queue \in Seq(Task) /\ ops \in 0 .. MaxRate
  BY DEF RepairType, WorkerRec, WorkerSound
<1>3. CASE WorkerTurn(w)
  <2> DEFINE y == [x EXCEPT !.pc = IF sched = "running" THEN "queue" ELSE "ended"]
  <2>1. worker' = [worker EXCEPT ![w] = y] /\ UNCHANGED << queue, ops, sched, stats >>
    BY <1>3 DEF WorkerTurn, RepairType
  <2>2. y \in WorkerRec /\ WorkerSound(y)
    BY <1>1 DEF WorkerRec, WorkerSound, WorkerPCs
  <2> HIDE DEF y
  <2> QED BY <1>1, <2>1, <2>2, OneWorker
<1>4. CASE Dequeue(w)
  <2>1. CASE queue = << >>
    BY <1>1, <1>4, <2>1, OffIs, OneWorker DEF Dequeue
  <2>2. CASE queue # << >>
    <3> DEFINE t == Head(queue)
    <3> DEFINE rest == Tail(queue)
    <3> DEFINE y == [pc |-> "rate", task |-> t]
    <3>1. worker' = [worker EXCEPT ![w] = y] /\ queue' = rest /\ UNCHANGED << ops, sched, stats >>
      BY <1>4, <2>2 DEF Dequeue
    <3>2. t \in Task /\ rest \in Seq(Task)
      BY <1>1, <2>2
    <3> HIDE DEF t, rest
    <3>3. y \in WorkerRec /\ WorkerSound(y)
      BY <3>2 DEF WorkerRec, WorkerSound, WorkerPCs
    <3> HIDE DEF y
    <3> QED BY <1>1, <3>1, <3>2, <3>3, OneWorker
  <2> QED BY <2>1, <2>2
<1>5. CASE RateAllow(w)
  <2> DEFINE y == [x EXCEPT !.pc = "write"]
  <2>1. worker' = [worker EXCEPT ![w] = y] /\ UNCHANGED << queue, sched, stats >>
    BY <1>5 DEF RateAllow, RepairType
  <2>2. x.pc = "rate" /\ ops < MaxRate /\ ops' = ops + 1
    BY <1>5 DEF RateAllow
  <2>3. ops' \in 0 .. MaxRate
    BY <1>1, <2>2, RepairAssumption
  <2>4. y \in WorkerRec /\ WorkerSound(y)
    BY <1>1, <2>2 DEF WorkerRec, WorkerSound, WorkerPCs
  <2> HIDE DEF y
  <2> QED BY <1>1, <2>1, <2>3, <2>4, OneWorker
<1>6. ASSUME NEW n \in Nodes, RepairWrite(w, n) PROVE RepairType'
  <2> DEFINE t == x.task
  <2> DEFINE u == [t EXCEPT !.targets = @ \ {n}]
  <2> DEFINE y == [x EXCEPT !.task = u]
  <2>1. t \in Task /\ x.pc = "write"
    BY <1>1, <1>6 DEF RepairWrite, WorkerSound
  <2>2. worker' = [worker EXCEPT ![w] = y] /\ UNCHANGED << queue, ops, sched, stats >>
    BY <1>1, <1>6, <2>1 DEF RepairWrite, RepairType, WorkerRec, Task
  <2>3. u \in Task
    BY <2>1 DEF Task
  <2> HIDE DEF u
  <2>4. y \in WorkerRec /\ WorkerSound(y)
    BY <1>1, <2>1, <2>3 DEF WorkerRec, WorkerSound
  <2> HIDE DEF y
  <2> QED BY <1>1, <2>2, <2>4, OneWorker
<1>7. CASE RepairDone(w)
  BY <1>1, <1>7, OffIs, OneWorker DEF RepairDone
<1> QED BY <1>3, <1>4, <1>5, <1>6, <1>7 DEF WorkerStep

\* The queue, the workers and the scheduler at every step.
LEMMA RepairTypeStep ==
    ASSUME RepairType, ReadType, [Next]_vars
    PROVE  RepairType'
<1>0. ASSUME UNCHANGED repairVars PROVE RepairType'
  BY <1>0 DEF RepairType
<1>1. ASSUME NEW r \in Readers, ReadReturns(r) PROVE RepairType'
  <2>1. UNCHANGED << worker, ops, sched, stats >> /\ read[r].pc = "check"
    BY <1>1 DEF ReadReturns
  <2>2. CASE UNCHANGED queue
    BY <1>0, <2>1, <2>2
  <2>3. CASE \E t \in Repairs(r) : queue' = Append(queue, t)
    <3>1. PICK t \in Task : queue' = Append(queue, t)
      BY <2>1, <2>3, RepairsAre
    <3>2. queue' \in Seq(Task)
      BY <3>1 DEF RepairType
    <3> QED BY <2>1, <3>2 DEF RepairType
  <2> QED BY <1>1, <2>2, <2>3 DEF ReadReturns
<1>2. CASE RepairNext
  <2>1. ASSUME NEW r \in Readers, ReadStep(r) PROVE RepairType'
    BY <1>0, <1>1, <2>1 DEF ReadStep, ReadQuorum, ReplicaRead
  <2>2. ASSUME NEW r \in Readers, NEW k \in Keys, ReadWithResponses(r, k) PROVE RepairType'
    BY <1>0, <2>2 DEF ReadWithResponses
  <2>3. ASSUME WindowEnds PROVE RepairType'
    BY <2>3, RepairAssumption DEF WindowEnds, RepairType
  <2>4. ASSUME StopScheduler \/ SchedulerStopped PROVE RepairType'
    BY <2>4 DEF StopScheduler, SchedulerStopped, RepairType
  <2>5. ASSUME StartScheduler PROVE RepairType'
    BY <2>5, OffIs DEF StartScheduler, RepairType, WorkerRec, WorkerSound
  <2>6. ASSUME NEW s \in StatsCallers, StatsBegin(s) \/ StatsEnd(s) PROVE RepairType'
    BY <2>6 DEF StatsBegin, StatsEnd, RepairType
  <2> QED BY <1>2, <2>1, <2>2, <2>3, <2>4, <2>5, <2>6, WorkerTypeStep DEF RepairNext
<1>3. CASE Crash
  <2>1. /\ queue' = << >> /\ ops' = 0 /\ sched' = "running"
        /\ worker' = [w \in Workers |-> Off] /\ stats' = [s \in StatsCallers |-> "idle"]
    BY <1>3 DEF Crash
  <2>2. 0 \in 0 .. MaxRate
    BY RepairAssumption
  <2> QED BY <2>1, <2>2, OffIs DEF RepairType, WorkerRec, WorkerSound
<1> QED BY <1>0, <1>2, <1>3, ReadFrame

\* The history of requests at every step.
LEMMA GhostTypeStep ==
    ASSUME GhostType, CallType, [Next]_vars
    PROVE  GhostType'
<1>0. ASSUME UNCHANGED << acked, mixed >>, solo' \subseteq solo PROVE GhostType'
  BY <1>0 DEF GhostType
<1>1. ASSUME NEW c \in Clients, NEW l \in Levels, NEW n \in 1 .. MaxBatch, NEW k \in Keys, NEW v \in Values,
             BeginPut(c, l, n, k, v)
      PROVE  GhostType'
  <2>1. solo' \subseteq Clients
    BY <1>1 DEF BeginPut, GhostType
  <2>2. acked' \in [Keys -> OptValues]
    BY <1>1 DEF BeginPut, GhostType, OptValues
  <2>3. mixed' \in BOOLEAN
    BY <1>1 DEF BeginPut
  <2> QED BY <2>1, <2>2, <2>3 DEF GhostType
<1>2. ASSUME NEW c \in Clients, EndPut(c) PROVE GhostType'
  <2>1. call[c].val \in Values
    BY <1>2 DEF EndPut, RestoreConfig, CallType, Callers
  <2>2. solo' \subseteq solo /\ UNCHANGED mixed
    BY <1>2 DEF EndPut
  <2>3. acked' \in [Keys -> OptValues]
    BY <1>2, <2>1 DEF EndPut, GhostType, OptValues
  <2> QED BY <2>2, <2>3 DEF GhostType
<1>3. CASE ClientNext
  BY <1>0, <1>3 DEF ClientNext
<1>4. CASE HandoffNext
  BY <1>0, <1>4 DEF HandoffNext
<1>5. CASE Crash
  BY <1>5 DEF Crash, GhostType
<1>6. CASE RepairNext
  <2>1. solo' \subseteq solo
    <3>1. ASSUME NEW r \in Readers, ReadStep(r) PROVE UNCHANGED solo
      BY <3>1 DEF ReadStep, ReadQuorum, ReadReturns, ReplicaRead
    <3>2. ASSUME NEW r \in Readers, NEW k \in Keys, ReadWithResponses(r, k) PROVE solo' \subseteq solo
      BY <3>2 DEF ReadWithResponses
    <3>3. ASSUME NEW w \in Workers, WorkerStep(w) PROVE UNCHANGED solo
      BY <3>3 DEF WorkerStep, WorkerTurn, Dequeue, RateAllow, RepairWrite, RepairDone
    <3>4. ASSUME WindowEnds \/ StopScheduler \/ SchedulerStopped \/ StartScheduler PROVE UNCHANGED solo
      BY <3>4 DEF WindowEnds, StopScheduler, SchedulerStopped, StartScheduler
    <3>5. ASSUME NEW s \in StatsCallers, StatsBegin(s) \/ StatsEnd(s) PROVE UNCHANGED solo
      BY <3>5 DEF StatsBegin, StatsEnd
    <3> QED BY <1>6, <3>1, <3>2, <3>3, <3>4, <3>5 DEF RepairNext
  <2> QED BY <1>0, <1>6, <2>1, RepairFrame
<1>7. CASE UNCHANGED vars
  BY <1>0, <1>7 DEF vars
<1> QED BY <1>1, <1>2, <1>3, <1>4, <1>5, <1>6, <1>7 DEF Next

-----------------------------------------------------------------------------
(* The invariant holds from the start and is preserved.                    *)

\* An empty file has no hints.
LEMMA LoadedEmpty ==
    ASSUME NEW t
    PROVE  Loaded(<< >>, t) = [n \in Nodes |-> << >>]
<1>1. << >> \in Seq(Slots) /\ Len(<< >>) = 0
  OBVIOUS
<1>2. ASSUME NEW n \in Nodes PROVE DOMAIN MineOf(<< >>, n, t) = {}
  <2> DEFINE mine == MineOf(<< >>, n, t)
  <2>1. mine \in Seq(1 .. Len(<< >>))
    BY <1>1, MineAre
  <2> HIDE DEF mine
  <2>2. mine \in Seq({})
    BY <1>1, <2>1
  <2> QED BY <2>2 DEF mine
<1>3. ASSUME NEW n \in Nodes
      PROVE  [j \in DOMAIN MineOf(<< >>, n, t) |-> << >>[MineOf(<< >>, n, t)[j]].hint] = << >>
  BY <1>2, <1>3
<1> HIDE DEF Loaded
<1> QED BY <1>3, LoadedIs

\* The coordinator and its callers at the start.
LEMMA CoordStart ==
    ASSUME Init
    PROVE  BudgetType /\ ConfigType /\ DataType /\ CallType
<1>1. BudgetType
  BY CoordinatorAssumption DEF Init, HandoffInit, CoordInit, BudgetType
<1>2. ConfigType
  BY ConfigFacts, CoordinatorAssumption DEF Init, HandoffInit, CoordInit, ConfigType
<1>3. DataType
  BY DEF Init, HandoffInit, CoordInit, DataType, OptValues
<1>4. call = [c \in Callers |-> Idle] /\ written = {}
  BY DEF Init, HandoffInit, CoordInit
<1>5. CallType
  BY <1>4, IdleIs DEF CallType
<1> QED BY <1>1, <1>2, <1>3, <1>5

\* The hints and the dispatcher at the start.
LEMMA HandoffStart ==
    ASSUME Init
    PROVE  ReplayType /\ MarkSound /\ StoreType /\ FlushType /\ Fresh /\ QuietFileLoads
<1>1. /\ hints = [n \in Nodes |-> << >>]
      /\ total = 0 /\ file = << >> /\ pending = 0 /\ sound = TRUE /\ clock = 0 /\ expired = 0
      /\ flush = [f \in Flushers |-> NoFlush]
      /\ running = TRUE /\ closed = FALSE /\ replaying = {}
      /\ replay = [r \in Replayers |-> IF r = Loop THEN [NoReplay EXCEPT !.pc = "check"] ELSE NoReplay]
  BY DEF Init, HandoffInit
<1>2. \A r \in Replayers : replay[r].pc \in {"idle", "check"}
  BY <1>1 DEF NoReplay
<1>3. replay \in [Replayers -> ReplayRec]
  <2>1. "check" \in ReplayPCs /\ Local \in Nodes /\ 0 \in Nat
    BY CoordinatorAssumption DEF ReplayPCs
  <2>2. NoReplay \in ReplayRec /\ [NoReplay EXCEPT !.pc = "check"] \in ReplayRec
    BY <2>1, NoReplayIs
  <2> QED BY <1>1, <2>2
<1>4. ReplayType /\ MarkSound
  BY <1>1, <1>2, <1>3 DEF ReplayType, MarkSound, Marked
<1>5. hints \in HintsOf /\ HintCount(hints) = 0
  BY <1>1, CountEmpty
<1>6. MaxHints \in Nat /\ MaxPending \in Nat /\ MaxStored \in Nat
  BY HandoffAssumption
<1>7. file \in Seq(Slots) /\ Len(file) = 0
  BY <1>1
<1>8. StoreType
  BY <1>1, <1>5, <1>6, <1>7 DEF StoreType
<1>9. \A f \in Flushers : flush[f] = NoFlush
  BY <1>1
<1>10. flush \in [Flushers -> FlushRec]
  BY <1>1, NoFlushIs
<1>11. FlushType
  BY <1>9, <1>10, NoFlushIs DEF FlushType
<1>12. Fresh
  BY <1>1 DEF Fresh
<1>13. QuietFileLoads
  BY <1>1, LoadedEmpty DEF QuietFileLoads
<1> QED BY <1>4, <1>8, <1>11, <1>12, <1>13

\* Reads, repairs and the history at the start.
LEMMA RepairStart ==
    ASSUME Init
    PROVE  ReadType /\ RepairType /\ GhostType
<1>1. ReadType
  BY NoReadIs DEF Init, ReadType
<1>2. 0 \in 0 .. MaxRate
  BY RepairAssumption
<1>3. RepairType
  BY <1>2, OffIs DEF Init, RepairType, WorkerRec, WorkerSound
<1>4. GhostType
  BY DEF Init, GhostType, OptValues
<1> QED BY <1>1, <1>3, <1>4

\* The invariant is inductive.
LEMMA Inductive == Spec => []IInv
<1>1. Init => IInv
  BY CoordStart, HandoffStart, RepairStart DEF IInv, ClusterType
<1>2. IInv /\ [Next]_vars => IInv'
  <2> SUFFICES ASSUME IInv, [Next]_vars PROVE IInv'
    OBVIOUS
  <2>1. /\ BudgetType /\ ConfigType /\ DataType /\ CallType /\ ReplayType /\ StoreType /\ FlushType
        /\ ReadType /\ RepairType /\ GhostType /\ MarkSound /\ Fresh /\ QuietFileLoads
    BY DEF IInv, ClusterType
  <2>2. BudgetType' /\ ConfigType' /\ DataType' /\ CallType'
    BY <2>1, BudgetStep, ConfigStep, DataStep, CallStep
  <2>3. ReplayType' /\ MarkSound'
    BY <2>1, ReplayTypeStep, MarkStep
  <2>4. StoreType' /\ FlushType' /\ Fresh' /\ QuietFileLoads'
    BY <2>1, StoreStep, FlushTypeStep, FreshStep, QuietStep
  <2>5. ReadType' /\ RepairType' /\ GhostType'
    BY <2>1, ReadTypeStep, RepairTypeStep, GhostTypeStep
  <2> QED BY <2>2, <2>3, <2>4, <2>5 DEF IInv, ClusterType
<1> QED BY <1>1, <1>2, PTL DEF Spec

-----------------------------------------------------------------------------
(* The theorems.                                                           *)

\* Coordinator, hint store, dispatcher and read repair keep their types, for
\* any number of them: quorums within the replication factor, calls of keys and
\* values, positions within the lines of a flush, answers from nodes asked.
THEOREM TypeCorrect == Spec => []TypeOK
<1>1. IInv => TypeOK
  <2> SUFFICES ASSUME IInv PROVE TypeOK
    OBVIOUS
  <2>1. WriteTypeOK
    <3>1. BudgetType /\ ConfigType /\ DataType /\ CallType
      BY DEF IInv, ClusterType
    <3> QED BY <3>1 DEF WriteTypeOK, BudgetType, ConfigType, DataType, OptValues, CallType, CallRec, CallPCs
  <2>2. HandoffTypeOK
    <3>1. ReplayType /\ StoreType /\ FlushType
      BY DEF IInv, ClusterType
    <3>2. hints \in [Nodes -> Seq(Hint)]
      BY <3>1 DEF StoreType, HintsOf
    <3>3. total \in Nat
      BY <3>1, CountMonotonic DEF StoreType, HintsOf
    <3>4. \A f \in Flushers : flush[f].pos \in 0 .. Len(flush[f].out)
      <4> SUFFICES ASSUME NEW f \in Flushers PROVE flush[f].pos \in 0 .. Len(flush[f].out)
        OBVIOUS
      <4>1. flush[f].pos \in Nat /\ flush[f].out \in Seq(Slot) /\ flush[f].pos <= Len(flush[f].out)
        BY <3>1 DEF FlushType, FlushRec
      <4> QED BY <4>1
    <3>5. \A r \in Replayers : replay[r].pc \in ReplayPCs
      BY <3>1 DEF ReplayType, ReplayRec
    <3>6. /\ pending \in 0 .. MaxPending /\ clock \in 0 .. MaxStored /\ expired \in 0 .. clock
          /\ {running, closed, sound} \subseteq BOOLEAN
      BY <3>1 DEF StoreType, ReplayType
    <3>7. replaying \subseteq Nodes
      BY <3>1 DEF ReplayType
    <3> QED BY <2>1, <3>2, <3>3, <3>4, <3>5, <3>6, <3>7 DEF HandoffTypeOK, ReplayPCs
  <2>3. ReadType /\ RepairType /\ GhostType
    BY DEF IInv, ClusterType
  <2>4. \A r \in Readers : /\ read[r].pc \in {"idle", "send", "check"}
                           /\ read[r].wait \subseteq read[r].sent
                           /\ \A a \in read[r].resp : a.node \in read[r].sent \ read[r].wait
    BY <2>3 DEF ReadType, ReadRec, ReadSound
  <2>5. \A i \in DOMAIN queue : queue[i].val \in Values /\ queue[i].targets \subseteq Nodes
    <3>1. queue \in Seq(Task)
      BY <2>3 DEF RepairType
    <3>2. \A i \in DOMAIN queue : queue[i] \in Task
      BY <3>1
    <3> QED BY <3>2 DEF Task
  <2> QED BY <2>2, <2>3, <2>4, <2>5 DEF TypeOK, RepairType, GhostType, OptValues, WorkerPCs
<1> QED BY <1>1, Inductive, PTL

\* The hint store and its dispatcher, with any number of flushes and replays at
\* once, crashes and write errors: totalSize is the number of hints and within
\* the limit, a file that was flushed undisturbed loads to the hints of the
\* store, and no node is replayed twice at the same time.
THEOREM HandoffIsSound == Spec => []HandoffSound
<1>1. IInv => HandoffSound
  <2> SUFFICES ASSUME IInv PROVE HandoffSound
    OBVIOUS
  <2>1. SizeAccounts
    BY DEF IInv, ClusterType, StoreType, SizeAccounts
  <2>2. ReplayExclusive
    BY DEF IInv, MarkSound, Marked, ReplayExclusive
  <2> QED BY <2>1, <2>2 DEF IInv, HandoffSound
<1> QED BY <1>1, Inductive, PTL
=============================================================================
