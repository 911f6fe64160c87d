---------------------------- MODULE Coordinator ----------------------------
(***************************************************************************)
(* The write path of a cluster: the gRPC handlers PutEntity and            *)
(* BatchPutEntities, which override the quorums of the shared coordinator  *)
(* for the time of one write, and the coordinator itself                   *)
(* (core/cluster/coordinator.go), which sends a write to every replica     *)
(* that gossip calls alive and then counts the answers.                    *)
(*                                                                         *)
(* Callers are the handlers (Clients) and the goroutines of the hint       *)
(* dispatcher (Replayers, see Handoff); each is inside at most one call.   *)
(* The values of a key are told apart by who wrote them, never compared:   *)
(* the code has no order on values.                                        *)
(***************************************************************************)
EXTENDS Naturals, Sequences, FiniteSets

CONSTANTS
    Nodes,         \* the physical nodes
    Local,         \* the node this coordinator runs on
    Keys, Values,
    NoValue,       \* what a replica answers that has no such key
    Owners,        \* Owners[k]: what Ring.GetOwners(k) returns
    ReplicaCount,  \* the configured replication factor
    Clients,       \* request handlers that may run at the same time
    Replayers,     \* goroutines of the dispatcher
    Levels,        \* the consistency levels requests ask for
    MaxBatch,      \* bound: entities of a batch
    Budgets        \* bounds: how often each fault or call may happen in a behaviour

ASSUME CoordinatorAssumption ==
    /\ Local \in Nodes
    /\ NoValue \notin Values
    /\ Owners \in [Keys -> Seq(Nodes)]
    /\ ReplicaCount \in Nat \ {0}
    /\ Clients \cap Replayers = {}
    /\ Levels \subseteq {"ONE", "QUORUM", "ALL"}
    /\ MaxBatch \in Nat \ {0}
    /\ \A b \in Budgets : \A f \in DOMAIN b : b[f] \in Nat

VARIABLES
    cfg,     \* Coordinator.config, shared by all requests
    alive,   \* what gossip.GetAliveNodes returns
    data,    \* data[n][k]: the value of k on replica n
    call,    \* call[c]: where caller c is, and its local variables
    written, \* the values clients have sent so far
    budget   \* what is left of the bounds of this behaviour

coordVars == << cfg, alive, data, call, written, budget >>

Callers == Clients \cup Replayers
Config == [rq : 0 .. ReplicaCount, wq : 0 .. ReplicaCount]
Quorum == (ReplicaCount \div 2) + 1
DefaultConfig == [rq |-> Quorum, wq |-> Quorum]

SeqToSet(s) == {s[i] : i \in DOMAIN s}
Lesser(a, b) == IF a < b THEN a ELSE b

\* Filter(s, S): the elements of s that are in S, in their order.
FilterUpTo(s, S) ==
    LET F[i \in 0 .. Len(s)] ==
            IF i = 0 THEN << >>
            ELSE IF s[i] \in S THEN Append(F[i - 1], s[i]) ELSE F[i - 1]
    IN F
Filter(s, S) == FilterUpTo(s, S)[Len(s)]

\* A fault or a call that the budget bounds happens.
Spend(f) == budget[f] > 0 /\ budget' = [budget EXCEPT ![f] = @ - 1]

\* selectReplicas: the owners, cut to ReplicaCount.
SelectReplicas(k) == SubSeq(Owners[k], 1, Lesser(Len(Owners[k]), ReplicaCount))
\* filterAliveNodes.
AliveReplicas(k) == SeqToSet(SelectReplicas(k)) \cap alive
DeadReplicas(k) == Filter(SelectReplicas(k), Nodes \ alive)

\* getCoordinatorConfig: the present configuration with the quorums of a level.
LevelConfig(l) ==
    CASE l = "ONE" -> [rq |-> 1, wq |-> 1]
      [] l = "ALL" -> [rq |-> ReplicaCount, wq |-> ReplicaCount]
      [] OTHER -> cfg

\* The quorum a level promises to the client that asks for it.
Promised(l) ==
    CASE l = "ONE" -> 1
      [] l = "ALL" -> ReplicaCount
      [] OTHER -> Quorum

Idle ==
    [pc |-> "idle", level |-> "QUORUM", key |-> NoValue, val |-> NoValue,
     new |-> DefaultConfig, old |-> DefaultConfig, left |-> 0, todo |-> << >>,
     wait |-> {}, ok |-> {}, took |-> {}, got |-> 0, res |-> FALSE]

WriteTypeOK ==
    /\ cfg \in Config
    /\ alive \subseteq Nodes /\ Local \in alive
    /\ data \in [Nodes -> [Keys -> Values \cup {NoValue}]]
    /\ written \subseteq Values
    /\ \A f \in DOMAIN budget : budget[f] \in Nat
    /\ \A c \in Callers :
          /\ call[c].pc \in {"idle", "save", "update", "wrap", "hint", "select",
                             "send", "check", "done"}
          /\ call[c].pc # "idle" => call[c].key \in Keys /\ call[c].val \in Values
          /\ call[c].new \in Config /\ call[c].old \in Config
          /\ call[c].wait \cup call[c].ok \cup call[c].took \subseteq Nodes

CoordInit ==
    /\ cfg = DefaultConfig
    /\ alive = Nodes
    /\ data = [n \in Nodes |-> [k \in Keys |-> NoValue]]
    /\ call = [c \in Callers |-> Idle]
    /\ written = {}
    /\ budget \in Budgets

-----------------------------------------------------------------------------
(* The handlers of the gRPC server.                                        *)

\* PutEntity, or BatchPutEntities with n entities, of which each is written
\* like a single one: the quorums of the level are computed once. On the budget
\* are requests that overlap, batches and levels that are not the default one,
\* and every other request after the first.
PutEntity(c, l, n, k, v) ==
    /\ call[c].pc = "idle"
    /\ v \notin written
    /\ written' = written \cup {v}
    /\ call' = [call EXCEPT ![c] =
          [Idle EXCEPT !.pc = "save", !.level = l, !.key = k, !.val = v,
                       !.new = LevelConfig(l), !.left = n - 1]]
    /\ IF l # "QUORUM" \/ n > 1 \/ \E d \in Clients : call[d].pc # "idle"
       THEN Spend("special")
       ELSE IF written = {} THEN UNCHANGED budget ELSE Spend("puts")
    /\ UNCHANGED << cfg, alive, data >>

\* oldConfig := s.coordinator.GetConfig()
SaveConfig(c) ==
    /\ call[c].pc = "save"
    /\ call' = [call EXCEPT ![c].pc = "update", ![c].old = cfg]
    /\ UNCHANGED << cfg, alive, data, written, budget >>

\* s.coordinator.UpdateConfig(coordinatorConfig)
UpdateConfig(c) ==
    /\ call[c].pc = "update"
    /\ cfg' = call[c].new
    /\ call' = [call EXCEPT ![c].pc = "wrap"]
    /\ UNCHANGED << alive, data, written, budget >>

\* CoordinatorWithHandoff.Write asks which replicas are alive; the others
\* are to get a hint, one after the other.
WrapWrite(c) ==
    /\ call[c].pc = "wrap"
    /\ IF SelectReplicas(call[c].key) = << >>
       THEN call' = [call EXCEPT ![c].pc = "done", ![c].res = FALSE]
       ELSE call' = [call EXCEPT ![c].pc = "hint", ![c].todo = DeadReplicas(call[c].key)]
    /\ UNCHANGED << cfg, alive, data, written, budget >>

HintsStored(c) ==
    /\ call[c].pc = "hint" /\ call[c].todo = << >>
    /\ call' = [call EXCEPT ![c].pc = "select"]
    /\ UNCHANGED << cfg, alive, data, written, budget >>

\* Mutant: the handler returns without putting the configuration back.
NeverRestores(c) ==
    /\ c \in Clients /\ call[c].pc = "done"
    /\ call' = [call EXCEPT ![c] = Idle]
    /\ UNCHANGED << cfg, alive, data, written, budget >>

\* The configuration is put back (deferred, or before the next entity of a
\* batch) and the handler answers or goes on; UnifiedIndex has what it does to
\* the index of this node before. Every write has a value of its
\* own: the size of Values bounds the writes of a behaviour.
RestoreConfig(c) ==
    /\ c \in Clients /\ call[c].pc = "done"
    /\ cfg' = call[c].old
    /\ IF call[c].left = 0 \/ written = Values
       THEN call' = [call EXCEPT ![c] = Idle] /\ UNCHANGED written
       ELSE \E k \in Keys, v \in Values \ written :
              /\ written' = written \cup {v}
              /\ call' = [call EXCEPT ![c] =
                    [Idle EXCEPT !.pc = "save", !.level = call[c].level, !.key = k,
                                 !.val = v, !.new = call[c].new, !.left = call[c].left - 1]]
    /\ UNCHANGED << alive, data, budget >>

-----------------------------------------------------------------------------
(* Coordinator.Write, for handlers and for the dispatcher.                 *)

\* Replicas are selected and filtered; too few of them end the call.
Select(c) ==
    /\ call[c].pc = "select"
    /\ LET targets == AliveReplicas(call[c].key) IN
       IF SelectReplicas(call[c].key) = << >> \/ Cardinality(targets) < cfg.wq
       THEN call' = [call EXCEPT ![c].pc = "done", ![c].res = FALSE]
       ELSE call' = [call EXCEPT ![c].pc = "send", ![c].wait = targets,
                                 ![c].ok = {}, ![c].took = {}]
    /\ UNCHANGED << cfg, alive, data, written, budget >>

\* Mutant: an answer with an error counts like any other.
CountsErrors(c, n) ==
    /\ call[c].pc = "send" /\ n \in call[c].wait
    /\ \E takes \in BOOLEAN :
          /\ IF takes THEN UNCHANGED budget ELSE Spend("faults")
          /\ data' = IF takes THEN [data EXCEPT ![n][call[c].key] = call[c].val] ELSE data
          /\ call' = [call EXCEPT ![c].wait = @ \ {n}, ![c].ok = @ \cup {n},
                                  ![c].took = IF takes THEN @ \cup {n} ELSE @]
    /\ UNCHANGED << cfg, alive, written >>

\* Mutant: a replica answers without having stored the value.
AnswersUnstored(c, n) ==
    /\ call[c].pc = "send" /\ n \in call[c].wait
    /\ call' = [call EXCEPT ![c].wait = @ \ {n}, ![c].ok = @ \cup {n}]
    /\ UNCHANGED << cfg, alive, data, written, budget >>

\* One goroutine of writeToReplicas: the replica takes the value and says so,
\* takes it and its answer is lost, or does not take it.  A write that takes effect
\* only after the call has given up on it is left out.
ReplicaWrite(c, n) ==
    /\ call[c].pc = "send" /\ n \in call[c].wait
    /\ \E takes \in BOOLEAN, answers \in BOOLEAN :
          /\ answers => takes
          /\ IF answers THEN UNCHANGED budget ELSE Spend("faults")
          /\ data' = IF takes THEN [data EXCEPT ![n][call[c].key] = call[c].val] ELSE data
          /\ call' = [call EXCEPT ![c].wait = @ \ {n},
                                  ![c].ok = IF answers THEN @ \cup {n} ELSE @,
                                  ![c].took = IF takes THEN @ \cup {n} ELSE @]
    /\ UNCHANGED << cfg, alive, written >>

\* waitForQuorum counts the answers up to the quorum of the moment...
WaitForQuorum(c) ==
    /\ call[c].pc = "send" /\ call[c].wait = {}
    /\ call' = [call EXCEPT ![c].pc = "check",
                            ![c].got = Lesser(Cardinality(call[c].ok), cfg.wq)]
    /\ UNCHANGED << cfg, alive, data, written, budget >>

\* ...and Write compares the count with the configuration it reads then.
CheckQuorum(c) ==
    /\ call[c].pc = "check"
    /\ call' = [call EXCEPT ![c].pc = "done", ![c].res = call[c].got >= cfg.wq]
    /\ UNCHANGED << cfg, alive, data, written, budget >>

\* Mutant: the local node is looked up like the others.
LocalToo(n) ==
    /\ Spend("flaps")
    /\ alive' = IF n \in alive THEN alive \ {n} ELSE alive \cup {n}
    /\ UNCHANGED << cfg, data, call, written >>

\* Gossip changes its mind about a node; the local one is always alive.
AliveChanges(n) ==
    /\ n # Local
    /\ Spend("flaps")
    /\ alive' = IF n \in alive THEN alive \ {n} ELSE alive \cup {n}
    /\ UNCHANGED << cfg, data, call, written >>

WriteStep(c) ==
    \/ Select(c)
    \/ \E n \in Nodes : ReplicaWrite(c, n)
    \/ WaitForQuorum(c)
    \/ CheckQuorum(c)
=============================================================================
