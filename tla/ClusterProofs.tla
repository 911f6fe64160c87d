--------------------------- MODULE ClusterProofs ---------------------------
(***************************************************************************)
(* Proofs about requests in the composed cluster: what the override of the *)
(* shared coordinator configuration by a request does to the others, what  *)
(* an acknowledgement means, and what becomes of an acknowledged write     *)
(* when hints are replayed, reads repaired and the process dies.           *)
(***************************************************************************)
EXTENDS HandoffProofs

-----------------------------------------------------------------------------
(* The inductive invariant.                                                *)

Busy(c) == call[c].pc # "idle"

\* Requests that are under way together are all of the default level.
Alike == \A c, d \in Clients : c # d /\ Busy(c) /\ Busy(d) => call[c].level = "QUORUM"

\* The quorums of a level, and those in effect while a request is where it is.
Own(l) == [rq |-> Promised(l), wq |-> Promised(l)]
Before == {"save", "update"}
InEffect(x) == IF x.pc \in Before THEN DefaultConfig ELSE x.new

\* Every request will put back the configuration of the start, and has the
\* quorums of its own level in between.
Swapped ==
    /\ \A c \in Clients : Busy(c) => /\ call[c].old = DefaultConfig
                                     /\ call[c].new = Own(call[c].level)
                                     /\ cfg = InEffect(call[c])
    /\ (\A c \in Clients : ~Busy(c)) => cfg = DefaultConfig

\* Replicas that answer have taken the value, and are counted at most once.
CountOK(x) ==
    /\ x.pc \in {"send", "check"} => x.ok \subseteq x.took
    /\ x.pc = "check" => x.got <= Cardinality(x.ok)
AckOK(x) == x.pc = "done" /\ x.res => Cardinality(x.took) >= Promised(x.level)

QuorumInv ==
    /\ ~mixed => Alike /\ Swapped
    /\ \A c \in Clients : CountOK(call[c])
    /\ ~mixed => \A c \in Clients : AckOK(call[c])

-----------------------------------------------------------------------------
(* Steps of one client.                                                    *)

\* The quorums of the default level are those of the start.
LEMMA OwnIs == Own("QUORUM") = DefaultConfig /\ \A l : Own(l).wq = Promised(l) /\ Own(l).rq = Promised(l)
BY DEF Own, Promised, DefaultConfig

\* A client that is in no call.
LEMMA IdleCounts == CountOK(Idle) /\ AckOK(Idle)
BY IdleIs DEF CountOK, AckOK

\* Steps of a request with its quorums in place.
LEMMA ClientMoves ==
    ASSUME QuorumInv, CallType, NEW c \in Clients, NEW x,
           call' = [call EXCEPT ![c] = x], UNCHANGED << cfg, mixed >>,
           call[c].pc \notin Before \cup {"idle"}, x.pc \notin Before \cup {"idle"},
           x.level = call[c].level, x.new = call[c].new, x.old = call[c].old,
           CountOK(x), ~mixed => AckOK(x)
    PROVE  QuorumInv'
<1>1. call'[c] = x /\ \A d \in Clients : d # c => call'[d] = call[d]
  BY DEF CallType, Callers
<1>2. (\A d \in Clients : CountOK(call[d]))' /\ (~mixed => \A d \in Clients : AckOK(call[d]))'
  BY <1>1 DEF QuorumInv
<1>3. ASSUME NEW d \in Clients
      PROVE  /\ Busy(d)' = Busy(d) /\ call'[d].level = call[d].level
             /\ call'[d].new = call[d].new /\ call'[d].old = call[d].old
             /\ InEffect(call'[d]) = InEffect(call[d])
  BY <1>1 DEF Busy, InEffect
<1>4. (~mixed => Alike)'
  BY <1>3 DEF QuorumInv, Alike
<1>5. (~mixed => Swapped)'
  BY <1>3 DEF QuorumInv, Swapped
<1> QED BY <1>2, <1>4, <1>5 DEF QuorumInv

\* Whatever is not a step of a client leaves the clients alone.
LEMMA ClientsKept ==
    ASSUME QuorumInv, UNCHANGED << cfg, mixed >>, \A d \in Clients : call'[d] = call[d]
    PROVE  QuorumInv'
BY DEF QuorumInv, Alike, Swapped, Busy

\* A client begins, next to none or among others of the default level.
LEMMA BeginStep ==
    ASSUME QuorumInv, CallType, GhostType,
           NEW c \in Clients, NEW l \in Levels, NEW n \in 1 .. MaxBatch, NEW k \in Keys, NEW v \in Values,
           BeginPut(c, l, n, k, v)
    PROVE  QuorumInv'
<1> DEFINE x == [Idle EXCEPT !.pc = "save", !.level = l, !.key = k, !.val = v,
                             !.new = LevelConfig(l), !.left = n - 1]
<1>1. /\ ~Busy(c) /\ call' = [call EXCEPT ![c] = x] /\ UNCHANGED cfg
      /\ mixed' = (mixed \/ \E d \in Clients : call[d].pc # "idle" /\ {l, call[d].level} # {"QUORUM"})
  BY DEF BeginPut, PutEntity, Busy
<1>2. /\ x.pc = "save" /\ x.level = l /\ x.new = LevelConfig(l) /\ x.old = DefaultConfig
  BY DEF Idle
<1> HIDE DEF x
<1>3. call'[c] = x /\ \A d \in Clients : d # c => call'[d] = call[d]
  BY <1>1 DEF CallType, Callers
<1>4. CountOK(x) /\ AckOK(x)
  BY <1>2 DEF CountOK, AckOK
<1>5. ASSUME ~mixed' PROVE Alike' /\ Swapped'
  <2>1. ~mixed /\ Alike /\ Swapped
    BY <1>1, <1>5 DEF QuorumInv, GhostType
  <2>2. \A d \in Clients : Busy(d) => l = "QUORUM" /\ call[d].level = "QUORUM"
    BY <1>1, <1>5 DEF Busy, GhostType
  <2>3. cfg = DefaultConfig
    <3>1. ASSUME NEW d \in Clients, Busy(d) PROVE cfg = DefaultConfig
      BY <2>1, <2>2, <3>1, OwnIs DEF Swapped, InEffect
    <3> QED BY <2>1, <3>1 DEF Swapped
  <2>4. LevelConfig(l) = Own(l)
    BY <2>3, CoordinatorAssumption DEF LevelConfig, Own, Promised, DefaultConfig
  <2>5. Alike'
    BY <1>2, <1>3, <2>2 DEF Alike, Busy
  <2>6. ASSUME NEW d \in Clients, Busy(d)'
        PROVE  /\ call'[d].old = DefaultConfig /\ call'[d].new = Own(call'[d].level)
               /\ cfg' = InEffect(call'[d])
    <3>1. CASE d = c
      BY <1>1, <1>2, <1>3, <2>3, <2>4, <3>1 DEF InEffect, Before
    <3>2. CASE d # c
      BY <1>1, <1>3, <2>1, <2>6, <3>2 DEF Swapped, Busy
    <3> QED BY <3>1, <3>2
  <2> QED BY <1>1, <2>3, <2>5, <2>6 DEF Swapped
<1>6. mixed' = FALSE => mixed = FALSE
  BY <1>1 DEF GhostType
<1>7. mixed' \in BOOLEAN /\ mixed \in BOOLEAN
  BY <1>1 DEF GhostType
<1> QED BY <1>3, <1>4, <1>5, <1>6, <1>7 DEF QuorumInv

\* A request ends, or goes on with its next entity: the configuration of the
\* start is back.
LEMMA EndStep ==
    ASSUME QuorumInv, CallType, NEW c \in Clients, EndPut(c)
    PROVE  QuorumInv'
<1>1. /\ call[c].pc = "done" /\ Busy(c) /\ cfg' = call[c].old /\ UNCHANGED mixed
  BY DEF EndPut, RestoreConfig, Busy
<1>2. PICK x : /\ call' = [call EXCEPT ![c] = x] /\ x.old = DefaultConfig
               /\ \/ x = Idle
                  \/ x.pc = "save" /\ x.level = call[c].level /\ x.new = call[c].new
  <2>1. CASE call' = [call EXCEPT ![c] = Idle]
    BY <2>1 DEF Idle
  <2>2. ASSUME NEW k \in Keys, NEW v \in Values,
               call' = [call EXCEPT ![c] =
                    [Idle EXCEPT !.pc = "save", !.level = call[c].level, !.key = k,
                                 !.val = v, !.new = call[c].new, !.left = call[c].left - 1]]
        PROVE  \E x : /\ call' = [call EXCEPT ![c] = x] /\ x.old = DefaultConfig
                      /\ x.pc = "save" /\ x.level = call[c].level /\ x.new = call[c].new
    <3> DEFINE x == [Idle EXCEPT !.pc = "save", !.level = call[c].level, !.key = k,
                                 !.val = v, !.new = call[c].new, !.left = call[c].left - 1]
    <3>1. x.old = DefaultConfig /\ x.pc = "save" /\ x.level = call[c].level /\ x.new = call[c].new
      BY DEF Idle
    <3>2. call' = [call EXCEPT ![c] = x]
      BY <2>2
    <3> QED BY <3>1, <3>2
  <2> QED BY <2>1, <2>2 DEF EndPut, RestoreConfig
<1>3. call'[c] = x /\ \A d \in Clients : d # c => call'[d] = call[d]
  BY <1>2 DEF CallType, Callers
<1>4. CountOK(x) /\ AckOK(x)
  BY <1>2, IdleCounts DEF CountOK, AckOK
<1>5. ASSUME ~mixed' PROVE Alike' /\ Swapped'
  <2>1. Alike /\ Swapped
    BY <1>1, <1>5 DEF QuorumInv
  <2>2. cfg' = DefaultConfig
    BY <1>1, <2>1 DEF Swapped
  <2>3. x.pc = "idle" \/ (x.pc = "save" /\ x.level = call[c].level /\ x.new = call[c].new)
    BY <1>2, IdleIs
  <2>4. Alike'
    BY <1>1, <1>3, <2>1, <2>3 DEF Alike, Busy
  <2>5. ASSUME NEW d \in Clients, Busy(d)'
        PROVE  /\ call'[d].old = DefaultConfig /\ call'[d].new = Own(call'[d].level)
               /\ cfg' = InEffect(call'[d])
    <3>1. CASE d = c
      <4>1. x.pc = "save" /\ x.level = call[c].level /\ x.new = call[c].new
        BY <1>3, <2>3, <2>5, <3>1 DEF Busy
      <4>2. call[c].new = Own(call[c].level)
        BY <1>1, <2>1 DEF Swapped
      <4> QED BY <1>2, <1>3, <2>2, <3>1, <4>1, <4>2 DEF InEffect, Before
    <3>2. CASE d # c
      <4>1. call'[d] = call[d] /\ Busy(d)
        BY <1>3, <2>5, <3>2 DEF Busy
      <4>2. call[d].level = "QUORUM"
        BY <1>1, <2>1, <3>2, <4>1 DEF Alike
      <4>3. call[d].old = DefaultConfig /\ call[d].new = DefaultConfig
        BY <2>1, <4>1, <4>2, OwnIs DEF Swapped
      <4> QED BY <2>2, <4>1, <4>2, <4>3, OwnIs DEF InEffect
    <3> QED BY <3>1, <3>2
  <2> QED BY <2>2, <2>4, <2>5 DEF Swapped
<1> QED BY <1>1, <1>3, <1>4, <1>5 DEF QuorumInv

\* A request saves the configuration, which is that of the start.
LEMMA SaveStep ==
    ASSUME QuorumInv, CallType, NEW c \in Clients, SaveConfig(c), UNCHANGED mixed
    PROVE  QuorumInv'
<1> DEFINE x == [call[c] EXCEPT !.pc = "update", !.old = cfg]
<1>1. call[c].pc = "save" /\ Busy(c) /\ call' = [call EXCEPT ![c] = x] /\ UNCHANGED cfg
  BY DEF SaveConfig, Busy
<1>2. x.pc = "update" /\ x.old = cfg /\ x.level = call[c].level /\ x.new = call[c].new
  BY DEF CallType, Callers, CallRec
<1> HIDE DEF x
<1>3. call'[c] = x /\ \A d \in Clients : d # c => call'[d] = call[d]
  BY <1>1 DEF CallType, Callers
<1>4. CountOK(x) /\ AckOK(x)
  BY <1>2 DEF CountOK, AckOK
<1>5. ASSUME ~mixed' PROVE Alike' /\ Swapped'
  <2>1. Alike /\ Swapped
    BY <1>5 DEF QuorumInv
  <2>2. cfg = DefaultConfig
    BY <1>1, <2>1 DEF Swapped, InEffect, Before
  <2>3. Alike'
    BY <1>1, <1>2, <1>3, <2>1 DEF Alike, Busy
  <2>4. ASSUME NEW d \in Clients, Busy(d)'
        PROVE  /\ call'[d].old = DefaultConfig /\ call'[d].new = Own(call'[d].level)
               /\ cfg' = InEffect(call'[d])
    <3>1. CASE d = c
      BY <1>1, <1>2, <1>3, <2>1, <2>2, <3>1 DEF Swapped, InEffect, Before
    <3>2. CASE d # c
      BY <1>1, <1>3, <2>1, <2>4, <3>2 DEF Swapped, Busy
    <3> QED BY <3>1, <3>2
  <2> QED BY <1>1, <2>2, <2>3, <2>4 DEF Swapped
<1> QED BY <1>3, <1>4, <1>5 DEF QuorumInv

\* A request puts its quorums in place; nobody else is under way, or all have
\* those of the start.
LEMMA UpdateStep ==
    ASSUME QuorumInv, CallType, NEW c \in Clients, UpdateConfig(c), UNCHANGED mixed
    PROVE  QuorumInv'
<1> DEFINE x == [call[c] EXCEPT !.pc = "wrap"]
<1>1. call[c].pc = "update" /\ Busy(c) /\ call' = [call EXCEPT ![c] = x] /\ cfg' = call[c].new
  BY DEF UpdateConfig, Busy
<1>2. x.pc = "wrap" /\ x.old = call[c].old /\ x.level = call[c].level /\ x.new = call[c].new
  BY DEF CallType, Callers, CallRec
<1> HIDE DEF x
<1>3. call'[c] = x /\ \A d \in Clients : d # c => call'[d] = call[d]
  BY <1>1 DEF CallType, Callers
<1>4. CountOK(x) /\ AckOK(x)
  BY <1>2 DEF CountOK, AckOK
<1>5. ASSUME ~mixed' PROVE Alike' /\ Swapped'
  <2>1. Alike /\ Swapped
    BY <1>5 DEF QuorumInv
  <2>2. Alike'
    BY <1>1, <1>2, <1>3, <2>1 DEF Alike, Busy
  <2>3. ASSUME NEW d \in Clients, Busy(d)'
        PROVE  /\ call'[d].old = DefaultConfig /\ call'[d].new = Own(call'[d].level)
               /\ cfg' = InEffect(call'[d])
    <3>1. CASE d = c
      BY <1>1, <1>2, <1>3, <2>1, <3>1 DEF Swapped, InEffect, Before
    <3>2. CASE d # c
      <4>1. call'[d] = call[d] /\ Busy(d)
        BY <1>3, <2>3, <3>2 DEF Busy
      <4>2. call[d].level = "QUORUM" /\ call[c].level = "QUORUM"
        BY <1>1, <2>1, <3>2, <4>1 DEF Alike
      <4>3. /\ call[d].old = DefaultConfig /\ call[d].new = DefaultConfig
            /\ call[c].new = DefaultConfig
        BY <1>1, <2>1, <4>1, <4>2, OwnIs DEF Swapped
      <4> QED BY <1>1, <4>1, <4>2, <4>3, OwnIs DEF InEffect
    <3> QED BY <3>1, <3>2
  <2>4. Busy(c)'
    BY <1>2, <1>3 DEF Busy
  <2> QED BY <2>2, <2>3, <2>4 DEF Swapped
<1> QED BY <1>3, <1>4, <1>5 DEF QuorumInv

\* The replicas are asked, answer and are counted.
LEMMA WriteQuorumStep ==
    ASSUME QuorumInv, CallType, ConfigType, NEW c \in Clients, UNCHANGED mixed,
           WrapWrite(c) \/ HintsStored(c) \/ StoreHint(c) \/ WriteStep(c)
    PROVE  QuorumInv'
<1>1. call[c] \in CallRec /\ CountOK(call[c])
  BY DEF QuorumInv, CallType, Callers
<1>2. UNCHANGED cfg
  BY DEF WrapWrite, HintsStored, StoreHint, WriteStep, Select, ReplicaWrite, WaitForQuorum, CheckQuorum
<1> DEFINE Keeps(x) == x.level = call[c].level /\ x.new = call[c].new /\ x.old = call[c].old
<1>3. ASSUME NEW x, call' = [call EXCEPT ![c] = x],
             call[c].pc \notin Before \cup {"idle"}, x.pc \notin Before \cup {"idle"},
             Keeps(x), CountOK(x), ~mixed => AckOK(x)
      PROVE  QuorumInv'
  BY <1>2, <1>3, ClientMoves
<1>4. ASSUME NEW x, call' = [call EXCEPT ![c] = x], call[c].pc \in {"wrap", "select"},
             x.pc = "done", x.res = FALSE, Keeps(x)
      PROVE  QuorumInv'
  <2>1. call[c].pc \notin Before \cup {"idle"} /\ x.pc \notin Before \cup {"idle"}
    BY <1>4 DEF Before
  <2>2. CountOK(x) /\ AckOK(x)
    BY <1>4 DEF CountOK, AckOK
  <2> HIDE DEF Keeps
  <2> QED BY <1>3, <1>4, <2>1, <2>2
<1>5. ASSUME NEW x, call' = [call EXCEPT ![c] = x], call[c].pc \in {"wrap", "hint"},
             x.pc \in {"hint", "select"}, Keeps(x)
      PROVE  QuorumInv'
  <2>1. call[c].pc \notin Before \cup {"idle"} /\ x.pc \notin Before \cup {"idle"}
    BY <1>5 DEF Before
  <2>2. CountOK(x) /\ AckOK(x)
    BY <1>5 DEF CountOK, AckOK
  <2> HIDE DEF Keeps
  <2> QED BY <1>3, <1>5, <2>1, <2>2
<1>6. CASE WrapWrite(c)
  <2> DEFINE todo == DeadReplicas(call[c].key)
  <2> DEFINE x == [call[c] EXCEPT !.pc = "done", !.res = FALSE]
  <2> DEFINE y == [call[c] EXCEPT !.pc = "hint", !.todo = todo]
  <2>1. /\ call' = [call EXCEPT ![c] = x] \/ call' = [call EXCEPT ![c] = y]
        /\ call[c].pc = "wrap"
    BY <1>6 DEF WrapWrite
  <2> HIDE DEF todo
  <2>2. x.pc = "done" /\ x.res = FALSE /\ Keeps(x) /\ y.pc = "hint" /\ Keeps(y)
    BY <1>1 DEF CallRec
  <2> HIDE DEF x, y, Keeps
  <2> QED BY <1>4, <1>5, <2>1, <2>2
<1>7. CASE HintsStored(c)
  <2> DEFINE x == [call[c] EXCEPT !.pc = "select"]
  <2>1. call' = [call EXCEPT ![c] = x] /\ call[c].pc = "hint"
    BY <1>7 DEF HintsStored
  <2>2. x.pc = "select" /\ Keeps(x)
    BY <1>1 DEF CallRec
  <2> HIDE DEF x, Keeps
  <2> QED BY <1>5, <2>1, <2>2
<1>8. CASE StoreHint(c)
  <2> DEFINE rest == Tail(call[c].todo)
  <2> DEFINE x == [call[c] EXCEPT !.todo = rest]
  <2>1. call' = [call EXCEPT ![c] = x] /\ call[c].pc = "hint"
    BY <1>8 DEF StoreHint
  <2> HIDE DEF rest
  <2>2. x.pc = "hint" /\ Keeps(x)
    BY <1>1, <2>1 DEF CallRec
  <2> HIDE DEF x, Keeps
  <2> QED BY <1>5, <2>1, <2>2
<1>9. CASE Select(c)
  <2> DEFINE targets == AliveReplicas(call[c].key)
  <2> DEFINE x == [call[c] EXCEPT !.pc = "done", !.res = FALSE]
  <2> DEFINE y == [call[c] EXCEPT !.pc = "send", !.wait = targets, !.ok = {}, !.took = {}]
  <2>1. /\ call' = [call EXCEPT ![c] = x] \/ call' = [call EXCEPT ![c] = y]
        /\ call[c].pc = "select"
    BY <1>9 DEF Select
  <2> HIDE DEF targets
  <2>2. x.pc = "done" /\ x.res = FALSE /\ Keeps(x)
    BY <1>1 DEF CallRec
  <2>3. y.pc = "send" /\ y.ok = {} /\ y.took = {} /\ Keeps(y)
    BY <1>1 DEF CallRec
  <2> HIDE DEF x, y
  <2>4. CountOK(y) /\ AckOK(y)
    BY <2>3 DEF CountOK, AckOK
  <2>5. call[c].pc \notin Before \cup {"idle"} /\ y.pc \notin Before \cup {"idle"}
    BY <2>1, <2>3 DEF Before
  <2> HIDE DEF Keeps
  <2> QED BY <1>3, <1>4, <2>1, <2>2, <2>3, <2>4, <2>5
<1>10. ASSUME NEW n \in Nodes, ReplicaWrite(c, n) PROVE QuorumInv'
  <2>1. PICK takes \in BOOLEAN, answers \in BOOLEAN :
           /\ answers => takes
           /\ call' = [call EXCEPT ![c].wait = @ \ {n},
                                   ![c].ok = IF answers THEN @ \cup {n} ELSE @,
                                   ![c].took = IF takes THEN @ \cup {n} ELSE @]
    BY <1>10 DEF ReplicaWrite
  <2> DEFINE x == [call[c] EXCEPT !.wait = @ \ {n},
                                  !.ok = IF answers THEN @ \cup {n} ELSE @,
                                  !.took = IF takes THEN @ \cup {n} ELSE @]
  <2>2. call' = [call EXCEPT ![c] = x] /\ call[c].pc = "send"
    BY <1>10, <2>1 DEF ReplicaWrite
  <2>3. /\ x.pc = "send" /\ Keeps(x)
        /\ x.ok = (IF answers THEN call[c].ok \cup {n} ELSE call[c].ok)
        /\ x.took = (IF takes THEN call[c].took \cup {n} ELSE call[c].took)
    BY <1>1, <2>2 DEF CallRec
  <2> HIDE DEF x
  <2>4. call[c].ok \subseteq call[c].took
    BY <1>1, <2>2 DEF CountOK
  <2>5. CountOK(x) /\ AckOK(x)
    BY <2>1, <2>3, <2>4 DEF CountOK, AckOK
  <2>6. call[c].pc \notin Before \cup {"idle"} /\ x.pc \notin Before \cup {"idle"}
    BY <2>2, <2>3 DEF Before
  <2> HIDE DEF Keeps
  <2> QED BY <1>3, <2>2, <2>3, <2>5, <2>6
<1>11. IsFiniteSet(call[c].ok) /\ IsFiniteSet(call[c].took)
  BY <1>1, FS_Subset, HandoffAssumption DEF CallRec
<1>12. Cardinality(call[c].ok) \in Nat /\ Cardinality(call[c].took) \in Nat
  BY <1>11, FS_CardinalityType
<1>13. cfg.wq \in Nat
  BY CoordinatorAssumption DEF ConfigType, Config
<1>14. CASE WaitForQuorum(c)
  <2> DEFINE g == Lesser(Cardinality(call[c].ok), cfg.wq)
  <2> DEFINE x == [call[c] EXCEPT !.pc = "check", !.got = g]
  <2>1. call' = [call EXCEPT ![c] = x] /\ call[c].pc = "send"
    BY <1>14 DEF WaitForQuorum
  <2>2. g <= Cardinality(call[c].ok)
    BY <1>12, <1>13 DEF Lesser
  <2> HIDE DEF g
  <2>3. x.pc = "check" /\ x.got = g /\ x.ok = call[c].ok /\ x.took = call[c].took /\ Keeps(x)
    BY <1>1 DEF CallRec
  <2> HIDE DEF x
  <2>4. CountOK(x) /\ AckOK(x)
    BY <1>1, <2>1, <2>2, <2>3 DEF CountOK, AckOK
  <2>5. call[c].pc \notin Before \cup {"idle"} /\ x.pc \notin Before \cup {"idle"}
    BY <2>1, <2>3 DEF Before
  <2> HIDE DEF Keeps
  <2> QED BY <1>3, <2>1, <2>3, <2>4, <2>5
<1>15. CASE CheckQuorum(c)
  <2> DEFINE b == call[c].got >= cfg.wq
  <2> DEFINE x == [call[c] EXCEPT !.pc = "done", !.res = b]
  <2>1. call' = [call EXCEPT ![c] = x] /\ call[c].pc = "check"
    BY <1>15 DEF CheckQuorum
  <2>2. b \in BOOLEAN
    OBVIOUS
  <2> HIDE DEF b
  <2>3. x.pc = "done" /\ x.res = b /\ x.took = call[c].took /\ Keeps(x)
    BY <1>1, <2>2 DEF CallRec
  <2> HIDE DEF x
  <2>4. CountOK(x)
    BY <2>3 DEF CountOK
  <2>5. ASSUME ~mixed PROVE AckOK(x)
    <3>1. cfg = Own(call[c].level)
      BY <2>1, <2>5 DEF QuorumInv, Swapped, InEffect, Before, Busy
    <3>2. cfg.wq = Promised(call[c].level)
      BY <3>1, OwnIs
    <3>3. call[c].ok \subseteq call[c].took /\ call[c].got <= Cardinality(call[c].ok)
      BY <1>1, <2>1 DEF CountOK
    <3>4. Cardinality(call[c].ok) <= Cardinality(call[c].took)
      BY <1>11, <3>3, FS_Subset
    <3>5. call[c].got \in Nat
      BY <1>1 DEF CallRec
    <3>6. b => Cardinality(call[c].took) >= cfg.wq
      BY <1>12, <1>13, <3>3, <3>4, <3>5 DEF b
    <3> QED BY <2>3, <3>2, <3>6 DEF AckOK
  <2>6. call[c].pc \notin Before \cup {"idle"} /\ x.pc \notin Before \cup {"idle"}
    BY <2>1, <2>3 DEF Before
  <2> HIDE DEF Keeps
  <2> QED BY <1>3, <2>1, <2>3, <2>4, <2>5, <2>6
<1> QED BY <1>6, <1>7, <1>8, <1>9, <1>10, <1>14, <1>15 DEF WriteStep

-----------------------------------------------------------------------------
(* All steps.                                                              *)

USE DEF coordVars, storeVars, dispVars, handoffVars, repairVars, ghostVars

\* The dispatcher writes in calls of its own.
LEMMA ReplayersKeepClients ==
    ASSUME CallType, NEW r \in Replayers, NEW x, call' = [call EXCEPT ![r] = x]
    PROVE  \A d \in Clients : call'[d] = call[d]
BY CoordinatorAssumption DEF CallType, Callers

LEMMA HandoffClients ==
    ASSUME CallType, HandoffNext
    PROVE  (\E c \in Clients : StoreHint(c)) \/ \A d \in Clients : call'[d] = call[d]
<1>1. ASSUME Cleanup \/ Stop \/ StopReturns \/ (\E lp \in Loops : LoopStep(lp) \/ Start(lp)) PROVE UNCHANGED call
  BY <1>1 DEF Cleanup, Stop, LoopStep, CheckAndReplay, NextNode, LoopWakes, StopReturns, Start
<1>2. ASSUME NEW f \in Flushers, FlushStep(f) \/ FlushFail(f) PROVE UNCHANGED call
  BY <1>2 DEF FlushStep, FlushOpen, FlushWrite, FlushSync, FlushFail
<1>3. ASSUME NEW r \in Replayers, NEW n \in Nodes, TriggerReplay(r, n) PROVE UNCHANGED call
  BY <1>3 DEF TriggerReplay
<1>4. ASSUME NEW r \in Replayers, ReplayStep(r) PROVE UNCHANGED call \/ \E x : call' = [call EXCEPT ![r] = x]
  <2>1. CASE ReplayHint(r)
    <3> DEFINE x == [Idle EXCEPT !.pc = "select", !.key = Head(replay[r].left).key, !.val = Head(replay[r].left).val]
    <3>1. call' = [call EXCEPT ![r] = x]
      BY <2>1 DEF ReplayHint
    <3> QED BY <3>1
  <2>2. CASE ReplayReturns(r)
    BY <2>2 DEF ReplayReturns
  <2> QED BY <1>4, <2>1, <2>2 DEF ReplayStep, MarkReplaying, CopyHints, ReplayStops, Unmark
<1> QED BY <1>1, <1>2, <1>3, <1>4, ReplayersKeepClients DEF HandoffNext

\* Every step preserves the invariant.
LEMMA QuorumStep ==
    ASSUME QuorumInv, CallType, ConfigType, GhostType, [Next]_vars
    PROVE  QuorumInv'
<1>1. CASE ClientNext
  <2>1. UNCHANGED mixed
    BY <1>1 DEF ClientNext
  <2>2. ASSUME NEW r \in Replayers, WriteStep(r) PROVE QuorumInv'
    <3>1. UNCHANGED cfg /\ \E x : call' = [call EXCEPT ![r] = x]
      BY <2>2 DEF WriteStep, Select, ReplicaWrite, WaitForQuorum, CheckQuorum
    <3> QED BY <2>1, <3>1, ReplayersKeepClients, ClientsKept
  <2>3. ASSUME NEW n \in Nodes, AliveChanges(n) PROVE QuorumInv'
    BY <2>1, <2>3, ClientsKept DEF AliveChanges
  <2> QED BY <1>1, <2>1, <2>2, <2>3, SaveStep, UpdateStep, WriteQuorumStep DEF ClientNext, Callers
<1>2. CASE HandoffNext
  <2>1. UNCHANGED << cfg, mixed >>
    BY <1>2, HandoffFrame
  <2> QED BY <1>2, <2>1, HandoffClients, ClientsKept, WriteQuorumStep
<1>3. CASE Crash
  <2>1. cfg' = DefaultConfig /\ call' = [c \in Callers |-> Idle] /\ mixed' = FALSE
    BY <1>3 DEF Crash, Restart
  <2>2. \A c \in Clients : call'[c] = Idle
    BY <2>1 DEF Callers
  <2> QED BY <2>1, <2>2, IdleIs, IdleCounts DEF QuorumInv, Alike, Swapped, Busy
<1>4. CASE RepairNext
  BY <1>4, RepairFrame, ClientsKept
<1>5. CASE UNCHANGED vars
  BY <1>5, ClientsKept DEF vars
<1> QED BY <1>1, <1>2, <1>3, <1>4, <1>5, BeginStep, EndStep DEF Next

LEMMA QuorumInductive == Spec => []QuorumInv
<1>1. Init => QuorumInv
  <2> SUFFICES ASSUME Init PROVE QuorumInv
    OBVIOUS
  <2>1. cfg = DefaultConfig /\ call = [c \in Callers |-> Idle]
    BY DEF Init, HandoffInit, CoordInit
  <2>2. \A c \in Clients : call[c] = Idle
    BY <2>1 DEF Callers
  <2> QED BY <2>1, <2>2, IdleIs, IdleCounts DEF QuorumInv, Alike, Swapped, Busy
<1>2. IInv /\ QuorumInv /\ [Next]_vars => QuorumInv'
  BY QuorumStep DEF IInv, ClusterType
<1> QED BY <1>1, <1>2, Inductive, PTL DEF Spec

-----------------------------------------------------------------------------
(* The theorems.                                                           *)

\* The override of the shared configuration in the gRPC server is temporary, for
\* any number of requests at once, batches, crashes and changes of gossip, as
\* long as no request with a level of its own has overlapped another.
THEOREM OverridesEnd == Spec => []OverrideIsTemporary
<1>1. QuorumInv => OverrideIsTemporary
  BY DEF QuorumInv, Swapped, Busy, OverrideIsTemporary
<1> QED BY <1>1, QuorumInductive, PTL

\* An acknowledged write was taken by as many replicas as the level of its
\* request promises, for any replication factor and under the same condition.
THEOREM AcknowledgedTookQuorum == Spec => []AckedTookQuorum
<1>1. QuorumInv => AckedTookQuorum
  BY DEF QuorumInv, AckOK, AckedTookQuorum
<1> QED BY <1>1, QuorumInductive, PTL

-----------------------------------------------------------------------------
(* What an acknowledged write leaves behind: the inductive invariant.      *)

Replicas(k) == SeqToSet(SelectReplicas(k))

\* Of(x, k, v): if x, a hint, a task or a call, is for k, its value is v.
Of(x, k, v) == x.key = k => x.val = v

\* Whatever the handoff may still write for k is v: the hints, the lines of the
\* file, and what replays have copied and are writing.
Sources(k, v) ==
    /\ \A n \in Nodes : \A i \in DOMAIN hints[n] : Of(hints[n][i], k, v)
    /\ \A i \in DOMAIN file : file[i] # Hole => Of(file[i].hint, k, v)
    /\ \A r \in Replayers : \A i \in DOMAIN replay[r].left : Of(replay[r].left[i], k, v)
    /\ \A r \in Replayers : Busy(r) => Of(call[r], k, v)

\* So is whatever read repair may still write.
Repairing == {"rate", "write"}
Tasks(k, v) ==
    /\ \A i \in DOMAIN queue : Of(queue[i], k, v)
    /\ \A w \in Workers : worker[w].pc \in Repairing => Of(worker[w].task, k, v)

\* A read asks replicas of its key, each once.
ReadOf(r, k) == read[r].pc # "idle" /\ read[r].key = k
AskedOnce(x) ==
    /\ x.pc # "idle" => x.sent \subseteq Replicas(x.key)
    /\ \A a, b \in x.resp : a.node = b.node => a = b

\* The request c has its key to itself, and the replicas it counts have its value.
Took(x) == x.wait \cup x.took \subseteq Replicas(x.key) /\ \A n \in x.took : data[n][x.key] = x.val
SoloOK(c) ==
    /\ Busy(c)
    /\ Sources(call[c].key, call[c].val) /\ Tasks(call[c].key, call[c].val)
    /\ \A d \in Clients : d # c /\ Busy(d) => call[d].key # call[c].key
    /\ \A r \in Readers : ~ReadOf(r, call[c].key)
    /\ Took(call[c])

\* A quorum of replicas holds v, and has answered so to every read under way.
HeldBy(k, v, S) ==
    /\ S \subseteq Replicas(k) /\ Cardinality(S) >= Quorum
    /\ \A n \in S : data[n][k] = v
    /\ \A r \in Readers : ReadOf(r, k) => \A a \in read[r].resp : a.node \in S => a.val = v
AckedOK(k, v) ==
    /\ Sources(k, v) /\ Tasks(k, v)
    /\ \A c \in Clients : Busy(c) => call[c].key # k
    /\ \E S : HeldBy(k, v, S)

HeldInv ==
    /\ \A r \in Readers : AskedOnce(read[r])
    /\ \A c \in solo : SoloOK(c)
    /\ \A k \in Keys : acked[k] # NoValue => AckedOK(k, acked[k])

-----------------------------------------------------------------------------
(* Where values come from.                                                 *)

\* There are at most ReplicaCount replicas of a key.
LEMMA ReplicasAre ==
    ASSUME NEW k \in Keys
    PROVE  /\ Replicas(k) \subseteq Nodes /\ IsFiniteSet(Replicas(k))
           /\ Cardinality(Replicas(k)) \in Nat /\ Cardinality(Replicas(k)) <= ReplicaCount
           /\ AliveReplicas(k) \subseteq Replicas(k)
<1> DEFINE s == SelectReplicas(k)
<1>1. s \in Seq(Nodes) /\ Len(s) \in Nat /\ Len(s) <= ReplicaCount
  <2> DEFINE m == Lesser(Len(Owners[k]), ReplicaCount)
  <2>1. Owners[k] \in Seq(Nodes) /\ ReplicaCount \in Nat
    BY CoordinatorAssumption
  <2>2. m \in 0 .. Len(Owners[k]) /\ m <= ReplicaCount
    BY <2>1 DEF Lesser
  <2>3. s = SubSeq(Owners[k], 1, m)
    BY DEF SelectReplicas
  <2> HIDE DEF s, m
  <2>4. Len(s) = m
    BY <2>1, <2>2, <2>3
  <2>5. s \in Seq(Nodes)
    BY ReplicaFacts DEF s
  <2> QED BY <2>1, <2>2, <2>4, <2>5
<1> DEFINE D == 1 .. Len(s)
<1>2. IsFiniteSet(D) /\ Cardinality(D) = Len(s)
  <2>1. \A m \in Nat : IsFiniteSet(1 .. m) /\ Cardinality(1 .. m) = m
    BY FS_Interval
  <2> HIDE DEF s
  <2> QED BY <1>1, <2>1
<1>3. s \in Surjection(D, Replicas(k))
  <2>1. Replicas(k) = {s[i] : i \in D}
    BY <1>1 DEF Replicas, SeqToSet
  <2>2. s \in [D -> Replicas(k)]
    <3> HIDE DEF s
    <3> QED BY <1>1, <2>1
  <2> HIDE DEF s
  <2> QED BY <2>1, <2>2 DEF Surjection
<1>4. Replicas(k) \subseteq Nodes
  BY <1>1 DEF Replicas, SeqToSet
<1>5. AliveReplicas(k) \subseteq Replicas(k)
  BY DEF AliveReplicas, Replicas
<1> HIDE DEF s, D
<1>6. IsFiniteSet(Replicas(k)) /\ Cardinality(Replicas(k)) <= Cardinality(D)
  BY <1>2, <1>3, FS_Surjection
<1>7. Cardinality(Replicas(k)) \in Nat
  BY <1>6, FS_CardinalityType
<1>8. ReplicaCount \in Nat
  BY CoordinatorAssumption
<1> QED BY <1>1, <1>2, <1>4, <1>5, <1>6, <1>7, <1>8

\* A line of the file was there, or is a hint that a flush writes.
LEMMA FileComesFrom ==
    ASSUME StoreType, FlushType, CallType, ReplayType, [Next]_vars,
           NEW i \in DOMAIN file', file'[i] # Hole
    PROVE  \/ \E j \in DOMAIN file : file[j] # Hole /\ file'[i] = file[j]
           \/ \E n \in Nodes : \E j \in DOMAIN hints[n] : file'[i].hint = hints[n][j]
<1> DEFINE Goal == \/ \E j \in DOMAIN file : file[j] # Hole /\ file'[i] = file[j]
                   \/ \E n \in Nodes : \E j \in DOMAIN hints[n] : file'[i].hint = hints[n][j]
<1>1. ASSUME UNCHANGED file PROVE Goal
  BY <1>1
<1>2. ASSUME NEW f \in Flushers, FlushOpen(f) PROVE Goal
  BY <1>2 DEF FlushOpen
<1>3. ASSUME NEW f \in Flushers, FlushWrite(f) PROVE Goal
  <2> DEFINE out == flush[f].out
  <2> DEFINE p == flush[f].pos + 1
  <2> DEFINE size == IF p > Len(file) THEN p ELSE Len(file)
  <2>1. /\ flush[f].open /\ flush[f].pos < Len(out)
        /\ file' = [q \in 1 .. size |-> CASE q = p -> out[p]
                                          [] q # p /\ q <= Len(file) -> file[q]
                                          [] OTHER -> Hole]
    BY <1>3 DEF FlushWrite
  <2>2. flush[f].pos \in Nat /\ out \in Seq(Slot) /\ file \in Seq(Slots) /\ hints \in HintsOf
    BY DEF FlushType, FlushRec, StoreType
  <2>3. p \in 1 .. Len(out) /\ Len(file) \in Nat
    BY <2>1, <2>2
  <2>4. PICK o \in Orders : out = Contents(o)
    BY <2>1 DEF FlushType
  <2>5. \E n \in Nodes : \E j \in DOMAIN hints[n] : out[p] = [node |-> n, hint |-> hints[n][j]]
    <3> HIDE DEF p, out
    <3> QED BY <2>2, <2>3, <2>4, ContentsFrom
  <2> HIDE DEF out, p
  <2>6. CASE i = p
    <3>1. file'[i] = out[p]
      BY <2>1, <2>6
    <3> QED BY <2>5, <3>1
  <2>7. CASE i # p
    <3>1. i \in 1 .. size /\ file'[i] = IF i <= Len(file) THEN file[i] ELSE Hole
      BY <2>1, <2>7
    <3> HIDE DEF size
    <3>2. i <= Len(file) /\ file'[i] = file[i]
      BY <3>1
    <3>3. i \in DOMAIN file
      BY <2>2, <2>3, <3>1, <3>2
    <3> QED BY <3>2, <3>3
  <2> QED BY <2>6, <2>7
<1>4. ASSUME NEW f \in Flushers, FlushSync(f) \/ FlushFail(f) PROVE UNCHANGED file
  BY <1>4 DEF FlushSync, FlushFail
<1>5. ASSUME UNCHANGED storeVars PROVE UNCHANGED file
  BY <1>5
<1> HIDE DEF storeVars, Goal
<1>6. Goal
  BY <1>1, <1>2, <1>3, <1>4, <1>5, StoreFrame, StoreHintIs, CleanupIs, RemoveHintIs, CrashStoreStep
<1> QED BY <1>6 DEF Goal

\* What a replay has copied: as it was, nothing, the rest of it, or the hints of
\* its node.
LeftIs(r) ==
    replay'[r].left \in {replay[r].left, << >>, hints[replay[r].node]}
        \cup (IF replay[r].left = << >> THEN {} ELSE {Tail(replay[r].left)})

LEMMA LeftStep ==
    ASSUME ReplayType, [Next]_vars, NEW r \in Replayers
    PROVE  LeftIs(r)
<1>0. ASSUME UNCHANGED replay PROVE LeftIs(r)
  BY <1>0 DEF LeftIs
<1>1. Loops \subseteq Replayers /\ \A s \in Replayers : replay[s] \in ReplayRec
  BY HandoffAssumption DEF ReplayType
<1>2. ASSUME NEW s \in Replayers, NEW rec, replay' = [replay EXCEPT ![s] = rec],
             rec.left \in {replay[s].left, << >>, hints[replay[s].node]}
      PROVE  LeftIs(r)
  <2>1. replay'[r] = IF r = s THEN rec ELSE replay[r]
    BY <1>2 DEF ReplayType
  <2> QED BY <1>2, <2>1 DEF LeftIs
<1>3. ASSUME NEW s \in Replayers, NEW pc, Goto(s, pc) PROVE LeftIs(r)
  <2> DEFINE rec == [replay[s] EXCEPT !.pc = pc]
  <2>1. replay' = [replay EXCEPT ![s] = rec] /\ rec.left = replay[s].left
    BY <1>1, <1>3 DEF Goto, ReplayRec
  <2> HIDE DEF rec
  <2> QED BY <1>2, <2>1
<1>4. CASE HandoffNext
  <2>1. ASSUME NEW c \in Clients, StoreHint(c) PROVE LeftIs(r)
    BY <1>0, <2>1 DEF StoreHint
  <2>2. ASSUME NEW f \in Flushers, FlushStep(f) \/ FlushFail(f) PROVE LeftIs(r)
    BY <1>0, <2>2 DEF FlushStep, FlushOpen, FlushWrite, FlushSync, FlushFail
  <2>3. ASSUME Cleanup \/ Stop \/ StopReturns PROVE LeftIs(r)
    BY <1>0, <2>3 DEF Cleanup, Stop, StopReturns
  <2>4. ASSUME NEW lp \in Loops, CheckAndReplay(lp) PROVE LeftIs(r)
    <3> DEFINE todo == {n \in alive \ replaying : hints[n] # << >>}
    <3> DEFINE rec == [replay[lp] EXCEPT !.pc = "nodes", !.nodes = todo]
    <3>1. replay' = [replay EXCEPT ![lp] = rec]
      BY <2>4 DEF CheckAndReplay
    <3> HIDE DEF todo
    <3>2. rec.left = replay[lp].left
      BY <1>1 DEF ReplayRec
    <3> HIDE DEF rec
    <3> QED BY <1>1, <1>2, <3>1, <3>2
  <2>5. ASSUME NEW lp \in Loops, NextNode(lp) PROVE LeftIs(r)
    <3>1. CASE Goto(lp, "wait")
      BY <1>1, <1>3, <3>1
    <3>2. ASSUME NEW n \in replay[lp].nodes,
                 replay' = [replay EXCEPT ![lp].pc = "mark", ![lp].node = n, ![lp].nodes = @ \ {n}]
          PROVE  LeftIs(r)
      <4> DEFINE rec == [replay[lp] EXCEPT !.pc = "mark", !.node = n, !.nodes = @ \ {n}]
      <4>1. replay' = [replay EXCEPT ![lp] = rec] /\ rec.left = replay[lp].left
        BY <1>1, <3>2 DEF ReplayRec
      <4> HIDE DEF rec
      <4> QED BY <1>1, <1>2, <4>1
    <3> QED BY <2>5, <3>1, <3>2 DEF NextNode
  <2>6. ASSUME NEW lp \in Loops, LoopWakes(lp) PROVE LeftIs(r)
    <3> DEFINE k == replay[lp].checks + 1
    <3> DEFINE a == [NoReplay EXCEPT !.pc = "ended"]
    <3> DEFINE b == [NoReplay EXCEPT !.pc = "check", !.checks = k]
    <3>1. replay' = [replay EXCEPT ![lp] = a] \/ replay' = [replay EXCEPT ![lp] = b]
      BY <2>6 DEF LoopWakes
    <3> HIDE DEF k
    <3>2. a.left = << >> /\ b.left = << >>
      BY DEF NoReplay
    <3> HIDE DEF a, b
    <3> QED BY <1>1, <1>2, <3>1, <3>2
  <2>7. ASSUME NEW s \in Replayers, NEW n \in Nodes, TriggerReplay(s, n) PROVE LeftIs(r)
    <3> DEFINE a == [NoReplay EXCEPT !.pc = "mark", !.node = n]
    <3>1. replay' = [replay EXCEPT ![s] = a] /\ a.left = << >>
      BY <2>7 DEF TriggerReplay, NoReplay
    <3> HIDE DEF a
    <3> QED BY <1>2, <3>1
  <2>8. ASSUME NEW s \in Replayers, MarkReplaying(s) \/ ReplayHint(s) \/ ReplayStops(s) \/ Unmark(s) PROVE LeftIs(r)
    BY <1>3, <2>8 DEF MarkReplaying, ReplayHint, ReplayStops, Unmark
  <2>9. ASSUME NEW s \in Replayers, CopyHints(s) PROVE LeftIs(r)
    <3> DEFINE hs == hints[replay[s].node]
    <3> DEFINE pc == IF hs = << >> THEN "unmark" ELSE "write"
    <3> DEFINE rec == [replay[s] EXCEPT !.left = hs, !.pc = pc]
    <3>1. replay' = [replay EXCEPT ![s] = rec]
      BY <2>9 DEF CopyHints
    <3> HIDE DEF pc
    <3>2. rec.left = hs
      BY <1>1 DEF ReplayRec
    <3> HIDE DEF rec
    <3> QED BY <1>2, <3>1, <3>2
  <2>10. ASSUME NEW s \in Replayers, ReplayReturns(s) PROVE LeftIs(r)
    <3> DEFINE l == replay[s].left
    <3> DEFINE pc == IF Len(l) = 1 THEN "unmark" ELSE "write"
    <3> DEFINE rec == [replay[s] EXCEPT !.left = Tail(l), !.pc = pc]
    <3>1. l # << >>
      BY <2>10 DEF ReplayReturns, ReplayType
    <3>2. replay' = [replay EXCEPT ![s] = rec]
      BY <2>10 DEF ReplayReturns
    <3> HIDE DEF pc
    <3>3. rec.left = Tail(l)
      BY <1>1 DEF ReplayRec
    <3> HIDE DEF rec
    <3>4. replay'[r] = IF r = s THEN rec ELSE replay[r]
      BY <3>2 DEF ReplayType
    <3> QED BY <3>1, <3>3, <3>4 DEF LeftIs
  <2>11. ASSUME NEW lp \in Loops, Start(lp) PROVE LeftIs(r)
    BY <1>1, <1>3, <2>11 DEF Start
  <2> QED BY <1>4, <2>1, <2>2, <2>3, <2>4, <2>5, <2>6, <2>7, <2>8, <2>9, <2>10, <2>11
          DEF HandoffNext, LoopStep, ReplayStep
<1>5. CASE Crash
  <2> DEFINE a == [NoReplay EXCEPT !.pc = "check"]
  <2>1. a.left = << >> /\ NoReplay.left = << >>
    BY DEF NoReplay
  <2>2. replay' = [s \in Replayers |-> IF s = Loop THEN a ELSE NoReplay]
    BY <1>5 DEF Crash, Restart
  <2> HIDE DEF a
  <2> QED BY <2>1, <2>2 DEF LeftIs
<1> QED BY <1>0, <1>4, <1>5, DispatcherFrame

\* So its hints were there before, in the copy or in the store.
LEMMA LeftComesFrom ==
    ASSUME ReplayType, StoreType, [Next]_vars, NEW r \in Replayers, NEW i \in DOMAIN replay'[r].left
    PROVE  \/ \E j \in DOMAIN replay[r].left : replay'[r].left[i] = replay[r].left[j]
           \/ \E n \in Nodes : \E j \in DOMAIN hints[n] : replay'[r].left[i] = hints[n][j]
<1> DEFINE l == replay[r].left
<1> DEFINE m == replay'[r].left
<1>1. l \in Seq(Hint) /\ replay[r].node \in Nodes
  BY DEF ReplayType, ReplayRec
<1>2. m = l \/ m = << >> \/ m = hints[replay[r].node] \/ (l # << >> /\ m = Tail(l))
  BY LeftStep DEF LeftIs
<1> HIDE DEF l, m
<1>3. i \in DOMAIN m
  BY DEF m
<1>4. l # << >> /\ m = Tail(l) => \E j \in DOMAIN l : m[i] = l[j]
  <2> SUFFICES ASSUME l # << >>, m = Tail(l) PROVE \E j \in DOMAIN l : m[i] = l[j]
    OBVIOUS
  <2>1. Len(l) \in Nat /\ Len(m) = Len(l) - 1 /\ m \in Seq(Hint)
    BY <1>1, HeadTailProperties
  <2>2. i \in 1 .. Len(m)
    BY <1>3, <2>1
  <2>3. m[i] = l[i + 1] /\ i + 1 \in DOMAIN l
    BY <1>1, <2>1, <2>2
  <2> QED BY <2>3
<1>5. \/ \E j \in DOMAIN l : m[i] = l[j]
      \/ \E n \in Nodes : \E j \in DOMAIN hints[n] : m[i] = hints[n][j]
  BY <1>1, <1>2, <1>3, <1>4
<1> QED BY <1>5 DEF l, m

\* A call that goes on keeps its key and value, asks replicas of the key, and
\* counts those that have taken the value.
GoesOn(c) ==
    /\ call'[c].key = call[c].key /\ call'[c].val = call[c].val
    /\ call'[c].wait \subseteq call[c].wait \cup AliveReplicas(call[c].key)
    /\ call'[c].took \subseteq call[c].took \cup {n \in call[c].wait : data'[n][call[c].key] = call[c].val}
BeginsPut(c) == \E l \in Levels, n \in 1 .. MaxBatch, k \in Keys, v \in Values : BeginPut(c, l, n, k, v)

\* Where a call comes from: it is over, it was under way, a request begins or goes
\* on with its next entity, or a replay takes the next hint of its copy.
CallOrigin(c) ==
    \/ ~Busy(c)' /\ (Busy(c) => c \in Replayers \/ EndPut(c) \/ Crash)
    \/ Busy(c) /\ Busy(c)' /\ GoesOn(c)
    \/ c \in Clients /\ (BeginsPut(c) \/ EndPut(c)) /\ call'[c].wait = {} /\ call'[c].took = {}
    \/ c \in Replayers /\ \E i \in DOMAIN replay[c].left :
          call'[c].key = replay[c].left[i].key /\ call'[c].val = replay[c].left[i].val

\* Steps of one call, which leave the others alone.
LEMMA CallChanges ==
    ASSUME CallType, NEW c \in Callers, NEW x, call' = [call EXCEPT ![c] = x], NEW d \in Callers,
           d = c => CallOrigin(c)
    PROVE  CallOrigin(d)
<1>1. CASE d # c
  <2>1. call'[d] = call[d]
    BY <1>1 DEF CallType
  <2> QED BY <2>1 DEF CallOrigin, GoesOn, Busy
<1> QED BY <1>1

\* A write of a request or of a replay goes on.
LEMMA WriteGoesOn ==
    ASSUME CallType, NEW c \in Callers, WriteStep(c), DataType
    PROVE  CallOrigin(c) /\ \E x : call' = [call EXCEPT ![c] = x]
<1>1. call[c] \in CallRec
  BY DEF CallType
<1>2. ASSUME NEW x, call' = [call EXCEPT ![c] = x], Busy(c), x.pc # "idle",
             x.key = call[c].key, x.val = call[c].val,
             x.wait \subseteq call[c].wait \cup AliveReplicas(call[c].key), x.took \subseteq call[c].took
      PROVE  CallOrigin(c)
  <2>1. call'[c] = x
    BY <1>2 DEF CallType
  <2> QED BY <1>2, <2>1 DEF CallOrigin, GoesOn, Busy
<1>3. CASE Select(c)
  <2> DEFINE targets == AliveReplicas(call[c].key)
  <2> DEFINE x == [call[c] EXCEPT !.pc = "done", !.res = FALSE]
  <2> DEFINE y == [call[c] EXCEPT !.pc = "send", !.wait = targets, !.ok = {}, !.took = {}]
  <2>1. /\ call' = [call EXCEPT ![c] = x] \/ call' = [call EXCEPT ![c] = y]
        /\ Busy(c)
    BY <1>3 DEF Select, Busy
  <2>2. x.pc # "idle" /\ x.key = call[c].key /\ x.val = call[c].val /\ x.wait = call[c].wait /\ x.took = call[c].took
    BY <1>1 DEF CallRec
  <2> HIDE DEF targets, x
  <2>3. y.pc # "idle" /\ y.key = call[c].key /\ y.val = call[c].val /\ y.wait = targets /\ y.took = {}
    BY <1>1 DEF CallRec
  <2> HIDE DEF y
  <2> QED BY <1>2, <2>1, <2>2, <2>3 DEF targets
<1>4. ASSUME NEW n \in Nodes, ReplicaWrite(c, n)
      PROVE  CallOrigin(c) /\ \E x : call' = [call EXCEPT ![c] = x]
  <2>1. PICK takes \in BOOLEAN, answers \in BOOLEAN :
           /\ data' = IF takes THEN [data EXCEPT ![n][call[c].key] = call[c].val] ELSE data
           /\ call' = [call EXCEPT ![c].wait = @ \ {n},
                                   ![c].ok = IF answers THEN @ \cup {n} ELSE @,
                                   ![c].took = IF takes THEN @ \cup {n} ELSE @]
    BY <1>4 DEF ReplicaWrite
  <2> DEFINE x == [call[c] EXCEPT !.wait = @ \ {n},
                                  !.ok = IF answers THEN @ \cup {n} ELSE @,
                                  !.took = IF takes THEN @ \cup {n} ELSE @]
  <2>2. call' = [call EXCEPT ![c] = x] /\ Busy(c) /\ n \in call[c].wait /\ call[c].key \in Keys
    BY <1>4, <2>1 DEF ReplicaWrite, Busy, CallType
  <2>3. /\ x.pc = call[c].pc /\ x.key = call[c].key /\ x.val = call[c].val /\ x.wait = call[c].wait \ {n}
        /\ x.took = (IF takes THEN call[c].took \cup {n} ELSE call[c].took)
    BY <1>1 DEF CallRec
  <2> HIDE DEF x
  <2>4. takes => data'[n][call[c].key] = call[c].val
    BY <2>1, <2>2 DEF DataType
  <2>5. call'[c] = x
    BY <2>2 DEF CallType
  <2>6. call'[c].took \subseteq call[c].took \cup {m \in call[c].wait : data'[m][call[c].key] = call[c].val}
    <3> SUFFICES ASSUME NEW m \in call'[c].took, m \notin call[c].took
                 PROVE  m \in call[c].wait /\ data'[m][call[c].key] = call[c].val
      OBVIOUS
    <3>1. takes /\ m = n
      BY <2>3, <2>5
    <3> QED BY <2>2, <2>4, <3>1
  <2>7. GoesOn(c)
    BY <2>3, <2>5, <2>6 DEF GoesOn
  <2> QED BY <2>2, <2>3, <2>5, <2>7 DEF CallOrigin, Busy
<1>5. CASE WaitForQuorum(c)
  <2> DEFINE g == Lesser(Cardinality(call[c].ok), cfg.wq)
  <2> DEFINE x == [call[c] EXCEPT !.pc = "check", !.got = g]
  <2>1. call' = [call EXCEPT ![c] = x] /\ Busy(c)
    BY <1>5 DEF WaitForQuorum, Busy
  <2> HIDE DEF g
  <2>2. x.pc # "idle" /\ x.key = call[c].key /\ x.val = call[c].val /\ x.wait = call[c].wait /\ x.took = call[c].took
    BY <1>1 DEF CallRec
  <2> HIDE DEF x
  <2> QED BY <1>2, <2>1, <2>2
<1>6. CASE CheckQuorum(c)
  <2> DEFINE b == call[c].got >= cfg.wq
  <2> DEFINE x == [call[c] EXCEPT !.pc = "done", !.res = b]
  <2>1. call' = [call EXCEPT ![c] = x] /\ Busy(c)
    BY <1>6 DEF CheckQuorum, Busy
  <2> HIDE DEF b
  <2>2. x.pc # "idle" /\ x.key = call[c].key /\ x.val = call[c].val /\ x.wait = call[c].wait /\ x.took = call[c].took
    BY <1>1 DEF CallRec
  <2> HIDE DEF x
  <2> QED BY <1>2, <2>1, <2>2
<1> QED BY <1>3, <1>4, <1>5, <1>6 DEF WriteStep

\* The steps of a request before the write, which ask and count nobody.
LEMMA RequestGoesOn ==
    ASSUME CallType, NEW c \in Clients,
           SaveConfig(c) \/ UpdateConfig(c) \/ WrapWrite(c) \/ HintsStored(c) \/ StoreHint(c)
    PROVE  CallOrigin(c) /\ \E x : call' = [call EXCEPT ![c] = x]
<1>1. c \in Callers /\ call[c] \in CallRec
  BY DEF CallType, Callers
<1> DEFINE Same(x) == /\ x.pc # "idle" /\ x.key = call[c].key /\ x.val = call[c].val
                      /\ x.wait = call[c].wait /\ x.took = call[c].took
<1>2. ASSUME NEW x, call' = [call EXCEPT ![c] = x], Busy(c), Same(x)
      PROVE  CallOrigin(c) /\ \E y : call' = [call EXCEPT ![c] = y]
  <2>1. call'[c] = x
    BY <1>1, <1>2 DEF CallType
  <2> QED BY <1>2, <2>1 DEF CallOrigin, GoesOn, Busy
<1>3. CASE SaveConfig(c)
  <2> DEFINE x == [call[c] EXCEPT !.pc = "update", !.old = cfg]
  <2>1. call' = [call EXCEPT ![c] = x] /\ Busy(c) /\ Same(x)
    BY <1>1, <1>3 DEF SaveConfig, Busy, CallRec
  <2> HIDE DEF x, Same
  <2> QED BY <1>2, <2>1
<1>4. CASE UpdateConfig(c)
  <2> DEFINE x == [call[c] EXCEPT !.pc = "wrap"]
  <2>1. call' = [call EXCEPT ![c] = x] /\ Busy(c) /\ Same(x)
    BY <1>1, <1>4 DEF UpdateConfig, Busy, CallRec
  <2> HIDE DEF x, Same
  <2> QED BY <1>2, <2>1
<1>5. CASE WrapWrite(c)
  <2> DEFINE todo == DeadReplicas(call[c].key)
  <2> DEFINE x == [call[c] EXCEPT !.pc = "done", !.res = FALSE]
  <2> DEFINE y == [call[c] EXCEPT !.pc = "hint", !.todo = todo]
  <2>1. /\ call' = [call EXCEPT ![c] = x] \/ call' = [call EXCEPT ![c] = y]
        /\ Busy(c)
    BY <1>5 DEF WrapWrite, Busy
  <2> HIDE DEF todo
  <2>2. Same(x) /\ Same(y)
    BY <1>1 DEF CallRec
  <2> HIDE DEF x, y, Same
  <2> QED BY <1>2, <2>1, <2>2
<1>6. CASE HintsStored(c)
  <2> DEFINE x == [call[c] EXCEPT !.pc = "select"]
  <2>1. call' = [call EXCEPT ![c] = x] /\ Busy(c) /\ Same(x)
    BY <1>1, <1>6 DEF HintsStored, Busy, CallRec
  <2> HIDE DEF x, Same
  <2> QED BY <1>2, <2>1
<1>7. CASE StoreHint(c)
  <2> DEFINE rest == Tail(call[c].todo)
  <2> DEFINE x == [call[c] EXCEPT !.todo = rest]
  <2>1. call' = [call EXCEPT ![c] = x] /\ Busy(c)
    BY <1>7 DEF StoreHint, Busy
  <2> HIDE DEF rest
  <2>2. Same(x)
    BY <1>1, <2>1 DEF CallRec, Busy
  <2> HIDE DEF x, Same
  <2> QED BY <1>2, <2>1, <2>2
<1> QED BY <1>3, <1>4, <1>5, <1>6, <1>7

\* Every step.
LEMMA CallComesFrom ==
    ASSUME CallType, DataType, ReplayType, [Next]_vars, NEW d \in Callers
    PROVE  CallOrigin(d)
<1>0. ASSUME UNCHANGED call PROVE CallOrigin(d)
  BY <1>0 DEF CallOrigin, GoesOn, Busy
<1>1. \A c \in Clients : c \in Callers
  BY DEF Callers
<1>2. \A r \in Replayers : r \in Callers
  BY DEF Callers
<1>3. ASSUME NEW c \in Clients, NEW l \in Levels, NEW n \in 1 .. MaxBatch, NEW k \in Keys, NEW v \in Values,
             BeginPut(c, l, n, k, v)
      PROVE  CallOrigin(d)
  <2> DEFINE x == [Idle EXCEPT !.pc = "save", !.level = l, !.key = k, !.val = v,
                               !.new = LevelConfig(l), !.left = n - 1]
  <2>1. call' = [call EXCEPT ![c] = x]
    BY <1>3 DEF BeginPut, PutEntity
  <2>2. x.wait = {} /\ x.took = {}
    BY DEF Idle
  <2> HIDE DEF x
  <2>3. call'[c] = x
    BY <1>1, <2>1 DEF CallType
  <2>4. BeginsPut(c)
    BY <1>3 DEF BeginsPut
  <2>5. CallOrigin(c)
    BY <2>2, <2>3, <2>4 DEF CallOrigin
  <2> QED BY <1>1, <2>1, <2>5, CallChanges
<1>4. ASSUME NEW c \in Clients, EndPut(c) PROVE CallOrigin(d)
  <2>1. PICK x : call' = [call EXCEPT ![c] = x] /\ x.wait = {} /\ x.took = {}
    <3>1. CASE call' = [call EXCEPT ![c] = Idle]
      <4>1. Idle.wait = {} /\ Idle.took = {}
        BY DEF Idle
      <4> QED BY <3>1, <4>1
    <3>2. ASSUME NEW k \in Keys, NEW v \in Values,
                 call' = [call EXCEPT ![c] =
                      [Idle EXCEPT !.pc = "save", !.level = call[c].level, !.key = k,
                                   !.val = v, !.new = call[c].new, !.left = call[c].left - 1]]
          PROVE  \E x : call' = [call EXCEPT ![c] = x] /\ x.wait = {} /\ x.took = {}
      <4> DEFINE x == [Idle EXCEPT !.pc = "save", !.level = call[c].level, !.key = k,
                                   !.val = v, !.new = call[c].new, !.left = call[c].left - 1]
      <4>1. x.wait = {} /\ x.took = {}
        BY DEF Idle
      <4>2. call' = [call EXCEPT ![c] = x]
        BY <3>2
      <4> QED BY <4>1, <4>2
    <3> QED BY <1>4, <3>1, <3>2 DEF EndPut, RestoreConfig
  <2>2. call'[c] = x
    BY <1>1, <2>1 DEF CallType
  <2>3. CallOrigin(c)
    BY <1>4, <2>1, <2>2 DEF CallOrigin
  <2> QED BY <1>1, <2>1, <2>3, CallChanges
<1>5. CASE ClientNext
  <2>1. ASSUME NEW c \in Clients, SaveConfig(c) \/ UpdateConfig(c) \/ WrapWrite(c) \/ HintsStored(c)
        PROVE  CallOrigin(d)
    BY <1>1, <2>1, RequestGoesOn, CallChanges
  <2>2. ASSUME NEW c \in Callers, WriteStep(c) PROVE CallOrigin(d)
    BY <2>2, WriteGoesOn, CallChanges
  <2>3. ASSUME NEW n \in Nodes, AliveChanges(n) PROVE CallOrigin(d)
    BY <1>0, <2>3 DEF AliveChanges
  <2> QED BY <1>5, <2>1, <2>2, <2>3 DEF ClientNext
<1>6. CASE HandoffNext
  <2>1. ASSUME NEW c \in Clients, StoreHint(c) PROVE CallOrigin(d)
    BY <1>1, <2>1, RequestGoesOn, CallChanges
  <2>2. ASSUME Cleanup \/ Stop \/ StopReturns \/ (\E lp \in Loops : LoopStep(lp) \/ Start(lp)) PROVE CallOrigin(d)
    BY <1>0, <2>2 DEF Cleanup, Stop, LoopStep, CheckAndReplay, NextNode, LoopWakes, StopReturns, Start
  <2>3. ASSUME NEW f \in Flushers, FlushStep(f) \/ FlushFail(f) PROVE CallOrigin(d)
    BY <1>0, <2>3 DEF FlushStep, FlushOpen, FlushWrite, FlushSync, FlushFail
  <2>4. ASSUME NEW r \in Replayers, NEW n \in Nodes, TriggerReplay(r, n) PROVE CallOrigin(d)
    BY <1>0, <2>4 DEF TriggerReplay
  <2>5. ASSUME NEW r \in Replayers, ReplayHint(r) PROVE CallOrigin(d)
    <3> DEFINE h == Head(replay[r].left)
    <3> DEFINE x == [Idle EXCEPT !.pc = "select", !.key = h.key, !.val = h.val]
    <3>1. call' = [call EXCEPT ![r] = x] /\ replay[r].pc = "write"
      BY <2>5 DEF ReplayHint
    <3>2. replay[r].left # << >> /\ replay[r].left \in Seq(Hint)
      BY <3>1 DEF ReplayType, ReplayRec
    <3>3. 1 \in DOMAIN replay[r].left /\ h = replay[r].left[1]
      BY <3>2
    <3> HIDE DEF h
    <3>4. x.key = h.key /\ x.val = h.val
      BY DEF Idle
    <3> HIDE DEF x
    <3>5. call'[r] = x
      BY <1>2, <3>1 DEF CallType
    <3>6. CallOrigin(r)
      BY <3>3, <3>4, <3>5 DEF CallOrigin
    <3> QED BY <1>2, <3>1, <3>6, CallChanges
  <2>6. ASSUME NEW r \in Replayers, ReplayReturns(r) PROVE CallOrigin(d)
    <3>1. call' = [call EXCEPT ![r] = Idle]
      BY <2>6 DEF ReplayReturns
    <3>2. CallOrigin(r)
      BY <1>2, <3>1, IdleIs DEF CallOrigin, Busy, CallType
    <3> QED BY <1>2, <3>1, <3>2, CallChanges
  <2>7. ASSUME NEW r \in Replayers, MarkReplaying(r) \/ CopyHints(r) \/ ReplayStops(r) \/ Unmark(r)
        PROVE  CallOrigin(d)
    BY <1>0, <2>7 DEF MarkReplaying, CopyHints, ReplayStops, Unmark
  <2> QED BY <1>6, <2>1, <2>2, <2>3, <2>4, <2>5, <2>6, <2>7 DEF HandoffNext, ReplayStep
<1>7. CASE Crash
  BY <1>7, IdleIs DEF Crash, Restart, CallOrigin, Busy
<1>8. CASE RepairNext
  BY <1>0, <1>8, RepairFrame
<1>9. CASE UNCHANGED vars
  BY <1>0, <1>9 DEF vars
<1> QED BY <1>3, <1>4, <1>5, <1>6, <1>7, <1>8, <1>9 DEF Next

\* What is on a replica: as it was, or the value of a call or of a repair of the key.
LEMMA DataComesFrom ==
    ASSUME CallType, DataType, RepairType, [Next]_vars, NEW n \in Nodes, NEW k \in Keys
    PROVE  \/ data'[n][k] = data[n][k]
           \/ \E c \in Callers : Busy(c) /\ call[c].key = k /\ data'[n][k] = call[c].val
           \/ \E w \in Workers : /\ worker[w].pc \in Repairing /\ worker[w].task.key = k
                                 /\ data'[n][k] = worker[w].task.val
<1> DEFINE Goal == \/ data'[n][k] = data[n][k]
                   \/ \E c \in Callers : Busy(c) /\ call[c].key = k /\ data'[n][k] = call[c].val
                   \/ \E w \in Workers : /\ worker[w].pc \in Repairing /\ worker[w].task.key = k
                                         /\ data'[n][k] = worker[w].task.val
<1>0. ASSUME UNCHANGED data PROVE Goal
  BY <1>0
<1>1. ASSUME NEW m \in Nodes, NEW j \in Keys, NEW v, data' = [data EXCEPT ![m][j] = v]
      PROVE  data'[n][k] = data[n][k] \/ (j = k /\ data'[n][k] = v)
  BY <1>1 DEF DataType
<1>2. ASSUME NEW c \in Callers, NEW m \in Nodes, ReplicaWrite(c, m) PROVE Goal
  <2>1. Busy(c) /\ call[c].key \in Keys
    BY <1>2 DEF ReplicaWrite, Busy, CallType
  <2>2. UNCHANGED data \/ data' = [data EXCEPT ![m][call[c].key] = call[c].val]
    BY <1>2 DEF ReplicaWrite
  <2>3. CASE data' = [data EXCEPT ![m][call[c].key] = call[c].val]
    BY <1>1, <2>1, <2>3
  <2> QED BY <1>0, <2>2, <2>3
<1>3. ASSUME NEW w \in Workers, NEW m \in Nodes, RepairWrite(w, m) PROVE Goal
  <2>1. worker[w].pc \in Repairing /\ worker[w].task.key \in Keys
    BY <1>3 DEF RepairWrite, Repairing, RepairType, Task
  <2>2. UNCHANGED data \/ data' = [data EXCEPT ![m][worker[w].task.key] = worker[w].task.val]
    BY <1>3 DEF RepairWrite
  <2>3. CASE data' = [data EXCEPT ![m][worker[w].task.key] = worker[w].task.val]
    BY <1>1, <2>1, <2>3
  <2> QED BY <1>0, <2>2, <2>3
<1> HIDE DEF Goal
<1>4. ASSUME NEW c \in Clients, NEW l \in Levels, NEW m \in 1 .. MaxBatch, NEW j \in Keys, NEW v \in Values,
             BeginPut(c, l, m, j, v)
      PROVE  Goal
  BY <1>0, <1>4 DEF BeginPut, PutEntity
<1>5. ASSUME NEW c \in Clients, EndPut(c) PROVE Goal
  BY <1>0, <1>5 DEF EndPut, RestoreConfig
<1>6. ASSUME ClientNext PROVE Goal
  <2>1. ASSUME NEW c \in Callers, WriteStep(c) PROVE Goal
    BY <1>0, <1>2, <2>1 DEF WriteStep, Select, WaitForQuorum, CheckQuorum
  <2>2. ASSUME NEW m \in Nodes, AliveChanges(m) PROVE Goal
    BY <1>0, <2>2 DEF AliveChanges
  <2>3. ASSUME NEW c \in Clients, SaveConfig(c) \/ UpdateConfig(c) \/ WrapWrite(c) \/ HintsStored(c) PROVE Goal
    BY <1>0, <2>3 DEF SaveConfig, UpdateConfig, WrapWrite, HintsStored
  <2> QED BY <1>6, <2>1, <2>2, <2>3 DEF ClientNext
<1>7. ASSUME HandoffNext PROVE Goal
  BY <1>0, <1>7, HandoffFrame
<1>8. ASSUME Crash PROVE Goal
  BY <1>0, <1>8 DEF Crash, Restart
<1>9. ASSUME RepairNext PROVE Goal
  <2>1. ASSUME NEW r \in Readers, ReadStep(r) PROVE Goal
    BY <1>0, <2>1 DEF ReadStep, ReadQuorum, ReadReturns, ReplicaRead
  <2>2. ASSUME NEW r \in Readers, NEW j \in Keys, ReadWithResponses(r, j) PROVE Goal
    BY <1>0, <2>2 DEF ReadWithResponses
  <2>3. ASSUME NEW w \in Workers, WorkerStep(w) PROVE Goal
    BY <1>0, <1>3, <2>3 DEF WorkerStep, WorkerTurn, Dequeue, RateAllow, RepairDone
  <2>4. ASSUME WindowEnds \/ StopScheduler \/ SchedulerStopped \/ StartScheduler PROVE Goal
    BY <1>0, <2>4 DEF WindowEnds, StopScheduler, SchedulerStopped, StartScheduler
  <2>5. ASSUME NEW s \in StatsCallers, StatsBegin(s) \/ StatsEnd(s) PROVE Goal
    BY <1>0, <2>5 DEF StatsBegin, StatsEnd
  <2> QED BY <1>9, <2>1, <2>2, <2>3, <2>4, <2>5 DEF RepairNext
<1>10. ASSUME UNCHANGED vars PROVE Goal
  BY <1>0, <1>10 DEF vars
<1>11. Goal
  BY <1>4, <1>5, <1>6, <1>7, <1>8, <1>9, <1>10 DEF Next
<1> QED BY <1>11 DEF Goal

\* Where the tasks of the queue and of the workers come from.
LEMMA QueueComesFrom ==
    ASSUME RepairType, ReadType, [Next]_vars, NEW i \in DOMAIN queue'
    PROVE  \/ \E j \in DOMAIN queue : queue'[i] = queue[j]
           \/ \E r \in Readers : ReadReturns(r) /\ queue'[i] \in Repairs(r)
<1> DEFINE Goal == \/ \E j \in DOMAIN queue : queue'[i] = queue[j]
                   \/ \E r \in Readers : ReadReturns(r) /\ queue'[i] \in Repairs(r)
<1>0. ASSUME UNCHANGED queue PROVE Goal
  BY <1>0
<1>1. queue \in Seq(Task)
  BY DEF RepairType
<1>2. ASSUME NEW r \in Readers, ReadReturns(r) PROVE Goal
  <2>1. ASSUME NEW t \in Repairs(r), queue' = Append(queue, t) PROVE Goal
    <3>1. queue'[i] = t \/ \E j \in DOMAIN queue : queue'[i] = queue[j]
      <4>1. t \in Task
        <5>1. read[r].pc # "idle"
          BY <1>2 DEF ReadReturns
        <5> QED BY <2>1, <5>1, RepairsAre
      <4> QED BY <1>1, <2>1, <4>1
    <3> QED BY <1>2, <2>1, <3>1
  <2> QED BY <1>0, <1>2, <2>1 DEF ReadReturns
<1>3. ASSUME NEW w \in Workers, Dequeue(w) PROVE Goal
  <2>1. CASE queue' = Tail(queue) /\ queue # << >>
    <3> DEFINE m == Tail(queue)
    <3>1. m \in Seq(Task) /\ Len(m) = Len(queue) - 1 /\ Len(queue) \in Nat
      BY <1>1, <2>1, HeadTailProperties
    <3>2. i \in 1 .. Len(m)
      BY <2>1, <3>1
    <3>3. i + 1 \in DOMAIN queue /\ queue'[i] = queue[i + 1]
      BY <1>1, <2>1, <3>1, <3>2
    <3> QED BY <3>3
  <2> QED BY <1>0, <1>3, <2>1 DEF Dequeue
<1> HIDE DEF Goal
<1>4. ASSUME NEW w \in Workers, WorkerStep(w) PROVE Goal
  BY <1>0, <1>3, <1>4 DEF WorkerStep, WorkerTurn, RateAllow, RepairWrite, RepairDone
<1>5. ASSUME NEW r \in Readers, ReadStep(r) PROVE Goal
  BY <1>0, <1>2, <1>5 DEF ReadStep, ReadQuorum, ReplicaRead
<1>6. ASSUME NEW r \in Readers, NEW k \in Keys, ReadWithResponses(r, k) PROVE Goal
  BY <1>0, <1>6 DEF ReadWithResponses
<1>7. ASSUME WindowEnds \/ StopScheduler \/ SchedulerStopped \/ StartScheduler PROVE Goal
  BY <1>0, <1>7 DEF WindowEnds, StopScheduler, SchedulerStopped, StartScheduler
<1>8. ASSUME NEW s \in StatsCallers, StatsBegin(s) \/ StatsEnd(s) PROVE Goal
  BY <1>0, <1>8 DEF StatsBegin, StatsEnd
<1>9. ASSUME RepairNext PROVE Goal
  BY <1>4, <1>5, <1>6, <1>7, <1>8, <1>9 DEF RepairNext
<1>10. ASSUME Crash PROVE Goal
  BY <1>10 DEF Crash
<1>11. Goal
  BY <1>0, <1>9, <1>10, ReadFrame
<1> QED BY <1>11 DEF Goal

LEMMA WorkerComesFrom ==
    ASSUME RepairType, [Next]_vars, NEW w \in Workers, worker'[w].pc \in Repairing
    PROVE  \/ /\ worker[w].pc \in Repairing
              /\ worker'[w].task.key = worker[w].task.key /\ worker'[w].task.val = worker[w].task.val
           \/ \E j \in DOMAIN queue : worker'[w].task = queue[j]
<1> DEFINE Same == /\ worker[w].pc \in Repairing
                   /\ worker'[w].task.key = worker[w].task.key /\ worker'[w].task.val = worker[w].task.val
<1> DEFINE Goal == Same \/ \E j \in DOMAIN queue : worker'[w].task = queue[j]
<1>0. ASSUME UNCHANGED worker PROVE Goal
  BY <1>0
<1>1. queue \in Seq(Task) /\ \A v \in Workers : worker[v] \in WorkerRec /\ WorkerSound(worker[v])
  BY DEF RepairType, WorkerRec, WorkerSound
<1>2. Off.pc = "idle"
  BY DEF Off
<1>3. ASSUME NEW v \in Workers, NEW y, worker' = [worker EXCEPT ![v] = y],
             \/ y.pc \notin Repairing
             \/ worker[v].pc \in Repairing /\ y.task.key = worker[v].task.key /\ y.task.val = worker[v].task.val
             \/ \E j \in DOMAIN queue : y.task = queue[j]
      PROVE  Goal
  <2>1. worker'[w] = IF w = v THEN y ELSE worker[w]
    BY <1>3 DEF RepairType
  <2> QED BY <1>3, <2>1
<1> HIDE DEF Goal
<1>4. ASSUME NEW v \in Workers, WorkerTurn(v) PROVE Goal
  <2> DEFINE y == [worker[v] EXCEPT !.pc = IF sched = "running" THEN "queue" ELSE "ended"]
  <2>1. worker' = [worker EXCEPT ![v] = y]
    BY <1>4 DEF WorkerTurn, RepairType
  <2>2. y.pc \notin Repairing
    BY <1>1 DEF WorkerRec, Repairing
  <2> HIDE DEF y
  <2> QED BY <1>3, <2>1, <2>2
<1>5. ASSUME NEW v \in Workers, Dequeue(v) PROVE Goal
  <2>1. CASE queue = << >>
    BY <1>2, <1>3, <1>5, <2>1 DEF Dequeue, Repairing
  <2>2. CASE queue # << >>
    <3> DEFINE y == [pc |-> "rate", task |-> Head(queue)]
    <3>1. worker' = [worker EXCEPT ![v] = y]
      BY <1>5, <2>2 DEF Dequeue
    <3>2. 1 \in DOMAIN queue /\ y.task = queue[1]
      BY <1>1, <2>2
    <3> HIDE DEF y
    <3> QED BY <1>3, <3>1, <3>2
  <2> QED BY <2>1, <2>2
<1>6. ASSUME NEW v \in Workers, RateAllow(v) PROVE Goal
  <2> DEFINE y == [worker[v] EXCEPT !.pc = "write"]
  <2>1. worker' = [worker EXCEPT ![v] = y] /\ worker[v].pc \in Repairing
    BY <1>6 DEF RateAllow, RepairType, Repairing
  <2>2. y.task = worker[v].task
    BY <1>1 DEF WorkerRec
  <2> HIDE DEF y
  <2> QED BY <1>3, <2>1, <2>2
<1>7. ASSUME NEW v \in Workers, NEW n \in Nodes, RepairWrite(v, n) PROVE Goal
  <2> DEFINE t == worker[v].task
  <2> DEFINE u == [t EXCEPT !.targets = @ \ {n}]
  <2> DEFINE y == [worker[v] EXCEPT !.task = u]
  <2>1. t \in Task /\ worker[v].pc \in Repairing
    BY <1>1, <1>7 DEF RepairWrite, WorkerSound, Repairing
  <2>2. worker' = [worker EXCEPT ![v] = y]
    BY <1>1, <1>7, <2>1 DEF RepairWrite, RepairType, WorkerRec, Task
  <2>3. u.key = t.key /\ u.val = t.val
    BY <2>1 DEF Task
  <2> HIDE DEF u
  <2>4. y.task = u
    BY <1>1 DEF WorkerRec
  <2> HIDE DEF y
  <2> QED BY <1>3, <2>1, <2>2, <2>3, <2>4
<1>8. ASSUME NEW v \in Workers, RepairDone(v) PROVE Goal
  BY <1>2, <1>3, <1>8 DEF RepairDone, Repairing
<1>9. ASSUME NEW r \in Readers, ReadStep(r) PROVE Goal
  BY <1>0, <1>9 DEF ReadStep, ReadQuorum, ReplicaRead, ReadReturns
<1>10. ASSUME NEW r \in Readers, NEW k \in Keys, ReadWithResponses(r, k) PROVE Goal
  BY <1>0, <1>10 DEF ReadWithResponses
<1>11. ASSUME WindowEnds \/ StopScheduler \/ SchedulerStopped PROVE Goal
  BY <1>0, <1>11 DEF WindowEnds, StopScheduler, SchedulerStopped
<1>12. ASSUME StartScheduler \/ Crash PROVE Goal
  BY <1>2, <1>12 DEF StartScheduler, Crash, Repairing
<1>13. ASSUME NEW s \in StatsCallers, StatsBegin(s) \/ StatsEnd(s) PROVE Goal
  BY <1>0, <1>13 DEF StatsBegin, StatsEnd
<1>14. ASSUME RepairNext PROVE Goal
  BY <1>4, <1>5, <1>6, <1>7, <1>8, <1>9, <1>10, <1>11, <1>12, <1>13, <1>14 DEF RepairNext, WorkerStep
<1>15. Goal
  BY <1>0, <1>12, <1>14, ReadFrame
<1> QED BY <1>15 DEF Goal

\* Where a read comes from: it ends, goes on with one more answer at most, or begins.
NewAnswers(r) == {{[node |-> n, val |-> data[n][read[r].key]]} : n \in read[r].wait} \cup {{}}
ReadsOn(r) ==
    /\ read'[r].pc # "idle" => read[r].pc # "idle"
    /\ read'[r].key = read[r].key /\ read'[r].sent = read[r].sent
    /\ \E A \in NewAnswers(r) : read'[r].resp = read[r].resp \cup A
ReadOrigin(r) ==
    \/ read'[r].pc = "idle" /\ read'[r].resp = {}
    \/ ReadsOn(r)
    \/ \E k \in Keys : /\ ReadWithResponses(r, k) /\ read'[r].key = k
                       /\ read'[r].sent = AliveReplicas(k) /\ read'[r].resp = {}

LEMMA ReadComesFrom ==
    ASSUME ReadType, [Next]_vars, NEW r \in Readers
    PROVE  ReadOrigin(r)
<1>0. ASSUME read'[r] = read[r] PROVE ReadOrigin(r)
  <2>1. {} \in NewAnswers(r)
    BY DEF NewAnswers
  <2> QED BY <1>0, <2>1 DEF ReadOrigin, ReadsOn
<1>1. \A s \in Readers : read[s] \in ReadRec
  BY DEF ReadType
<1>2. ASSUME NEW s \in Readers, NEW x, read' = [read EXCEPT ![s] = x]
      PROVE  read'[r] = IF r = s THEN x ELSE read[r]
  BY <1>2 DEF ReadType
<1>3. NoRead.pc = "idle" /\ NoRead.resp = {}
  BY DEF NoRead
<1>4. ASSUME NEW s \in Readers, ReadReturns(s) PROVE ReadOrigin(r)
  BY <1>0, <1>2, <1>3, <1>4 DEF ReadReturns, ReadOrigin
<1>5. ASSUME NEW s \in Readers, ReadQuorum(s) PROVE ReadOrigin(r)
  <2> DEFINE g == Lesser(Cardinality(read[s].resp), cfg.rq)
  <2> DEFINE x == [read[s] EXCEPT !.pc = "check", !.got = g]
  <2>1. read' = [read EXCEPT ![s] = x] /\ read[s].pc = "send"
    BY <1>5 DEF ReadQuorum
  <2> HIDE DEF g
  <2>2. x.key = read[s].key /\ x.sent = read[s].sent /\ x.resp = read[s].resp
    BY <1>1 DEF ReadRec
  <2> HIDE DEF x
  <2>3. {} \in NewAnswers(s)
    BY DEF NewAnswers
  <2>4. CASE r = s
    BY <1>2, <2>1, <2>2, <2>3, <2>4 DEF ReadOrigin, ReadsOn
  <2> QED BY <1>0, <1>2, <2>1, <2>4
<1>6. ASSUME NEW s \in Readers, NEW n \in Nodes, ReplicaRead(s, n) PROVE ReadOrigin(r)
  <2> DEFINE a == [node |-> n, val |-> data[n][read[s].key]]
  <2> DEFINE x == [read[s] EXCEPT !.wait = @ \ {n}, !.resp = @ \cup {a}]
  <2> DEFINE y == [read[s] EXCEPT !.wait = @ \ {n}]
  <2>1. /\ read' = [read EXCEPT ![s] = x] \/ read' = [read EXCEPT ![s] = y]
        /\ read[s].pc = "send" /\ n \in read[s].wait
    BY <1>6 DEF ReplicaRead
  <2>2. {a} \in NewAnswers(s) /\ {} \in NewAnswers(s)
    BY <2>1 DEF NewAnswers
  <2> HIDE DEF a
  <2>3. x.key = read[s].key /\ x.sent = read[s].sent /\ x.resp = read[s].resp \cup {a}
    BY <1>1 DEF ReadRec
  <2>4. y.key = read[s].key /\ y.sent = read[s].sent /\ y.resp = read[s].resp
    BY <1>1 DEF ReadRec
  <2> HIDE DEF x, y
  <2>5. CASE r = s
    BY <1>2, <2>1, <2>2, <2>3, <2>4, <2>5 DEF ReadOrigin, ReadsOn
  <2> QED BY <1>0, <1>2, <2>1, <2>5
<1>7. ASSUME NEW s \in Readers, NEW k \in Keys, ReadWithResponses(s, k) PROVE ReadOrigin(r)
  <2> DEFINE A == AliveReplicas(k)
  <2> DEFINE e == acked[k]
  <2> DEFINE x == [NoRead EXCEPT !.pc = "send", !.key = k, !.expect = e, !.sent = A, !.wait = A]
  <2>1. read' = [read EXCEPT ![s] = x]
    BY <1>7 DEF ReadWithResponses
  <2> HIDE DEF A, e
  <2>2. x.key = k /\ x.sent = A /\ x.resp = {}
    BY DEF NoRead
  <2> HIDE DEF x
  <2>3. CASE r = s
    BY <1>2, <1>7, <2>1, <2>2, <2>3 DEF ReadOrigin, A
  <2> QED BY <1>0, <1>2, <2>1, <2>3
<1>8. ASSUME NEW w \in Workers, WorkerStep(w) PROVE ReadOrigin(r)
  BY <1>0, <1>8 DEF WorkerStep, WorkerTurn, Dequeue, RateAllow, RepairWrite, RepairDone
<1>9. ASSUME WindowEnds \/ StopScheduler \/ SchedulerStopped \/ StartScheduler PROVE ReadOrigin(r)
  BY <1>0, <1>9 DEF WindowEnds, StopScheduler, SchedulerStopped, StartScheduler
<1>10. ASSUME NEW s \in StatsCallers, StatsBegin(s) \/ StatsEnd(s) PROVE ReadOrigin(r)
  BY <1>0, <1>10 DEF StatsBegin, StatsEnd
<1>11. ASSUME RepairNext PROVE ReadOrigin(r)
  BY <1>4, <1>5, <1>6, <1>7, <1>8, <1>9, <1>10, <1>11 DEF RepairNext, ReadStep
<1>12. ASSUME Crash PROVE ReadOrigin(r)
  BY <1>3, <1>12 DEF Crash, ReadOrigin
<1> QED BY <1>0, <1>11, <1>12, ReadFrame

-----------------------------------------------------------------------------
(* What is still to be written for a key carries its acknowledged value.   *)

\* Hints, lines, copies and calls come from each other, or from requests.
LEMMA SourcesStep ==
    ASSUME StoreType, FlushType, CallType, ReplayType, DataType, [Next]_vars, NEW k, NEW v,
           Sources(k, v), \A c \in Clients : Busy(c) => Of(call[c], k, v)
    PROVE  Sources(k, v)'
<1>1. ASSUME NEW n \in Nodes, NEW i \in DOMAIN hints'[n] PROVE Of(hints'[n][i], k, v)
  <2> DEFINE h == hints'[n][i]
  <2>1. HintOrigin(n, h)
    BY <1>1, HintsComeFrom
  <2>2. ASSUME \E j \in DOMAIN hints[n] : h = hints[n][j] PROVE Of(h, k, v)
    BY <1>1, <2>2 DEF Sources
  <2>3. ASSUME \E j \in DOMAIN file : file[j] # Hole /\ h = file[j].hint PROVE Of(h, k, v)
    BY <2>3 DEF Sources
  <2>4. ASSUME NEW c \in Clients, StoredBy(c, h) PROVE Of(h, k, v)
    <3>1. call[c].pc = "hint" /\ h.key = call[c].key /\ h.val = call[c].val
      <4> HIDE DEF h
      <4> QED BY <2>4 DEF StoredBy, StoreHint
    <3>2. Of(call[c], k, v)
      BY <3>1 DEF Busy
    <3> HIDE DEF h
    <3> QED BY <3>1, <3>2 DEF Of
  <2> HIDE DEF h
  <2>5. Of(h, k, v)
    BY <2>1, <2>2, <2>3, <2>4 DEF HintOrigin
  <2> QED BY <2>5 DEF h
<1>2. ASSUME NEW i \in DOMAIN file', file'[i] # Hole PROVE Of(file'[i].hint, k, v)
  BY <1>2, FileComesFrom DEF Sources
<1>3. ASSUME NEW r \in Replayers, NEW i \in DOMAIN replay'[r].left PROVE Of(replay'[r].left[i], k, v)
  BY <1>3, LeftComesFrom DEF Sources
<1>4. ASSUME NEW r \in Replayers, Busy(r)' PROVE Of(call'[r], k, v)
  <2>1. r \in Callers /\ r \notin Clients
    BY CoordinatorAssumption DEF Callers
  <2>2. CallOrigin(r)
    BY <2>1, CallComesFrom
  <2>3. CASE Busy(r) /\ GoesOn(r)
    BY <2>3 DEF GoesOn, Of, Sources
  <2>4. ASSUME NEW i \in DOMAIN replay[r].left,
               call'[r].key = replay[r].left[i].key, call'[r].val = replay[r].left[i].val
        PROVE  Of(call'[r], k, v)
    BY <2>4 DEF Of, Sources
  <2> QED BY <1>4, <2>1, <2>2, <2>3, <2>4 DEF CallOrigin
<1> QED BY <1>1, <1>2, <1>3, <1>4 DEF Sources, Of, Busy

\* Tasks come from each other, or from reads that return.
LEMMA TasksStep ==
    ASSUME RepairType, ReadType, [Next]_vars, NEW k, NEW v, Tasks(k, v),
           \A r \in Readers : \A t \in Repairs(r) : read[r].pc = "check" => Of(t, k, v)
    PROVE  Tasks(k, v)'
<1>1. ASSUME NEW i \in DOMAIN queue' PROVE Of(queue'[i], k, v)
  <2>1. CASE \E j \in DOMAIN queue : queue'[i] = queue[j]
    BY <2>1 DEF Tasks
  <2>2. ASSUME NEW r \in Readers, ReadReturns(r), queue'[i] \in Repairs(r) PROVE Of(queue'[i], k, v)
    BY <2>2 DEF ReadReturns
  <2> QED BY <1>1, <2>1, <2>2, QueueComesFrom
<1>2. ASSUME NEW w \in Workers, worker'[w].pc \in Repairing PROVE Of(worker'[w].task, k, v)
  BY <1>2, WorkerComesFrom DEF Tasks, Of
<1> QED BY <1>1, <1>2 DEF Tasks, Of

\* A replica that holds v for k keeps it as long as nobody has another value for k.
LEMMA HoldsStep ==
    ASSUME CallType, DataType, RepairType, [Next]_vars, NEW n \in Nodes, NEW k \in Keys, NEW v,
           data[n][k] = v, Sources(k, v), Tasks(k, v), \A c \in Clients : Busy(c) => Of(call[c], k, v)
    PROVE  data'[n][k] = v
<1>1. ASSUME NEW c \in Callers, Busy(c) PROVE Of(call[c], k, v)
  BY <1>1 DEF Callers, Sources
<1>2. ASSUME NEW w \in Workers, worker[w].pc \in Repairing PROVE Of(worker[w].task, k, v)
  BY <1>2 DEF Tasks
<1> QED BY <1>1, <1>2, DataComesFrom DEF Of

\* A read that has asked each replica once still has.
LEMMA AskedStep ==
    ASSUME ReadType, [Next]_vars, NEW r \in Readers, AskedOnce(read[r])
    PROVE  AskedOnce(read[r])'
<1>1. ReadSound(read[r])
  BY DEF ReadType
<1>2. CASE read'[r].pc = "idle" /\ read'[r].resp = {}
  BY <1>2 DEF AskedOnce
<1>3. CASE ReadsOn(r)
  <2>1. PICK A \in NewAnswers(r) : read'[r].resp = read[r].resp \cup A
    BY <1>3 DEF ReadsOn
  <2>2. A = {} \/ \E n \in read[r].wait : A = {[node |-> n, val |-> data[n][read[r].key]]}
    BY DEF NewAnswers
  <2>3. ASSUME NEW a \in read'[r].resp, NEW b \in read'[r].resp, a.node = b.node PROVE a = b
    <3>1. \A x \in A : x.node \in read[r].wait
      BY <2>2
    <3>2. \A x \in read[r].resp : x.node \notin read[r].wait
      BY <1>1 DEF ReadSound
    <3>3. \A x, y \in A : x = y
      BY <2>2
    <3> QED BY <2>1, <2>3, <3>1, <3>2, <3>3 DEF AskedOnce
  <2>4. read'[r].pc # "idle" => read'[r].sent \subseteq Replicas(read'[r].key)
    BY <1>3 DEF ReadsOn, AskedOnce
  <2> QED BY <2>3, <2>4 DEF AskedOnce, Replicas
<1>4. ASSUME NEW k \in Keys, read'[r].key = k, read'[r].sent = AliveReplicas(k), read'[r].resp = {}
      PROVE  AskedOnce(read[r])'
  BY <1>4, ReplicasAre DEF AskedOnce, Replicas
<1> QED BY <1>2, <1>3, <1>4, ReadComesFrom DEF ReadOrigin

\* With up to four replicas, a value that most of the answers have is the one a
\* quorum holds: at most one replica is outside the quorum.
LEMMA FewOutside ==
    ASSUME ReplicaCount <= 4
    PROVE  ReplicaCount - Quorum <= 1 /\ ReplicaCount < Quorum + Quorum /\ Quorum \in Nat /\ ReplicaCount \in Nat
<1>1. ReplicaCount \in 1 .. 4
  BY CoordinatorAssumption
<1>2. ReplicaCount = 1 \/ ReplicaCount = 2 \/ ReplicaCount = 3 \/ ReplicaCount = 4
  BY <1>1
<1> QED BY <1>1, <1>2 DEF Quorum

LEMMA RepairsCarry ==
    ASSUME ReplicaCount <= 4, ReadType, NEW r \in Readers, read[r].pc # "idle", AskedOnce(read[r]),
           NEW k \in Keys, NEW v, NEW S, HeldBy(k, v, S), NEW t \in Repairs(r)
    PROVE  Of(t, k, v)
<1> DEFINE sent == read[r].sent
<1>1. PICK u \in MajorityValue(r) : t.key = read[r].key /\ t.val = u
  BY DEF Repairs
<1> SUFFICES ASSUME read[r].key = k, u # v PROVE FALSE
  BY <1>1 DEF Of
<1> DEFINE G == Group(r, u)
<1> DEFINE R == Replicas(k)
<1>2. Cardinality(G) > Cardinality(sent) \div 2 /\ ~(Cardinality(sent) < 2)
  BY DEF MajorityValue, Repairs
<1>3. sent \subseteq R
  BY DEF AskedOnce
<1>4. G \subseteq R \ S
  <2> SUFFICES ASSUME NEW a \in read[r].resp, a.val = u PROVE a.node \in R \ S
    BY DEF Group
  <2>1. a.node \in sent
    BY DEF ReadType, ReadSound
  <2>2. a.node \notin S
    BY DEF HeldBy, ReadOf
  <2> QED BY <1>3, <2>1, <2>2
<1>5. /\ IsFiniteSet(R) /\ Cardinality(R) \in Nat /\ Cardinality(R) <= ReplicaCount
      /\ S \subseteq R /\ Cardinality(S) >= Quorum
  BY ReplicasAre DEF HeldBy
<1> HIDE DEF sent, G, R
<1>6. IsFiniteSet(S) /\ IsFiniteSet(sent) /\ Cardinality(S) \in Nat /\ Cardinality(sent) \in Nat
  BY <1>3, <1>5, FS_Subset, FS_CardinalityType
<1>7. IsFiniteSet(R \ S) /\ Cardinality(R \ S) = Cardinality(R) - Cardinality(S)
  <2>1. R \cap S = S
    BY <1>5
  <2> QED BY <1>5, <2>1, FS_Difference
<1>8. Cardinality(G) \in Nat /\ Cardinality(G) <= Cardinality(R \ S)
  BY <1>4, <1>7, FS_Subset, FS_CardinalityType
<1> HIDE DEF Quorum
<1>9. Cardinality(G) <= 1
  <2>1. \A c \in Nat, s \in Nat, q \in Nat, n \in Nat : c <= n /\ s >= q /\ n - q <= 1 => c - s <= 1
    OBVIOUS
  <2>2. Cardinality(R) - Cardinality(S) <= 1
    BY <1>5, <1>6, <2>1, FewOutside
  <2> QED BY <1>5, <1>6, <1>7, <1>8, <2>2
<1>10. \A c \in Nat : ~(c < 2) => c \div 2 >= 1 /\ c \div 2 \in Nat
  OBVIOUS
<1>11. Cardinality(sent) \div 2 \in Nat /\ Cardinality(sent) \div 2 >= 1
  BY <1>2, <1>6, <1>10
<1> QED BY <1>2, <1>8, <1>9, <1>11

-----------------------------------------------------------------------------
(* The request that has its key to itself, and the write that it leaves.   *)

\* A request that ends is over, or has the next entity of its batch.
LEMMA EndIs ==
    ASSUME CallType, NEW c \in Clients, EndPut(c)
    PROVE  /\ call'[c].pc \in {"idle", "save"}
           /\ call[c].pc = "done"
           /\ \A d \in Callers : d # c => call'[d] = call[d]
           /\ UNCHANGED << data, handoffVars, read, repairVars >>
<1>1. c \in Callers
  BY DEF Callers
<1>2. CASE call' = [call EXCEPT ![c] = Idle]
  BY <1>1, <1>2, IdleIs DEF CallType, EndPut, RestoreConfig
<1>3. ASSUME NEW k \in Keys, NEW v \in Values,
             call' = [call EXCEPT ![c] =
                  [Idle EXCEPT !.pc = "save", !.level = call[c].level, !.key = k,
                               !.val = v, !.new = call[c].new, !.left = call[c].left - 1]]
      PROVE  call'[c].pc = "save" /\ \A d \in Callers : d # c => call'[d] = call[d]
  <2> DEFINE x == [Idle EXCEPT !.pc = "save", !.level = call[c].level, !.key = k,
                               !.val = v, !.new = call[c].new, !.left = call[c].left - 1]
  <2>1. call' = [call EXCEPT ![c] = x] /\ x.pc = "save"
    BY <1>3 DEF Idle
  <2> HIDE DEF x
  <2> QED BY <1>1, <2>1 DEF CallType
<1> QED BY <1>2, <1>3 DEF EndPut, RestoreConfig

\* A request that begins has asked and counted nobody yet.
LEMMA BeginIs ==
    ASSUME CallType, NEW c \in Clients, NEW l \in Levels, NEW n \in 1 .. MaxBatch, NEW k \in Keys, NEW v \in Values,
           BeginPut(c, l, n, k, v)
    PROVE  /\ call[c].pc = "idle" /\ call'[c].pc = "save"
           /\ call'[c].key = k /\ call'[c].val = v /\ call'[c].wait = {} /\ call'[c].took = {}
           /\ \A d \in Callers : d # c => call'[d] = call[d]
           /\ UNCHANGED << data, handoffVars, read, repairVars >>
<1> DEFINE x == [Idle EXCEPT !.pc = "save", !.level = l, !.key = k, !.val = v,
                             !.new = LevelConfig(l), !.left = n - 1]
<1>1. /\ call' = [call EXCEPT ![c] = x] /\ call[c].pc = "idle"
      /\ UNCHANGED << data, handoffVars, read, repairVars >>
  BY DEF BeginPut, PutEntity
<1>2. x.pc = "save" /\ x.key = k /\ x.val = v /\ x.wait = {} /\ x.took = {}
  BY DEF Idle
<1> HIDE DEF x
<1>3. c \in Callers
  BY DEF Callers
<1> QED BY <1>1, <1>2, <1>3 DEF CallType

\* The steps of the next-state relation that change what is known of the writes.
LEMMA GhostFrame ==
    ASSUME [Next]_vars
    PROVE  \/ UNCHANGED << solo, acked >>
           \/ \E c \in Clients, l \in Levels, n \in 1 .. MaxBatch, k \in Keys, v \in Values : BeginPut(c, l, n, k, v)
           \/ \E c \in Clients : EndPut(c)
           \/ Crash
           \/ \E r \in Readers, k \in Keys : ReadWithResponses(r, k)
<1>1. ASSUME NEW r \in Readers, ReadStep(r) PROVE UNCHANGED << solo, acked >>
  BY <1>1 DEF ReadStep, ReadQuorum, ReplicaRead, ReadReturns
<1>2. ASSUME NEW w \in Workers, WorkerStep(w) PROVE UNCHANGED << solo, acked >>
  BY <1>2 DEF WorkerStep, WorkerTurn, Dequeue, RateAllow, RepairWrite, RepairDone
<1>3. ASSUME WindowEnds \/ StopScheduler \/ SchedulerStopped \/ StartScheduler PROVE UNCHANGED << solo, acked >>
  BY <1>3 DEF WindowEnds, StopScheduler, SchedulerStopped, StartScheduler
<1>4. ASSUME NEW s \in StatsCallers, StatsBegin(s) \/ StatsEnd(s) PROVE UNCHANGED << solo, acked >>
  BY <1>4 DEF StatsBegin, StatsEnd
<1>5. CASE RepairNext
  BY <1>1, <1>2, <1>3, <1>4, <1>5 DEF RepairNext
<1>6. ASSUME ClientNext \/ HandoffNext PROVE UNCHANGED << solo, acked >>
  BY <1>6 DEF ClientNext, HandoffNext
<1>7. ASSUME UNCHANGED vars PROVE UNCHANGED << solo, acked >>
  BY <1>7 DEF vars
<1> QED BY <1>5, <1>6, <1>7 DEF Next

\* A request that has its key to itself had it, or has just begun.
LEMMA SoloComesFrom ==
    ASSUME [Next]_vars, NEW c \in solo'
    PROVE  \/ c \in solo
           \/ \E l \in Levels, n \in 1 .. MaxBatch, k \in Keys, v \in Values :
                 c \in Clients /\ BeginPut(c, l, n, k, v) /\ QuietKey(k)
<1>1. ASSUME NEW d \in Clients, NEW l \in Levels, NEW n \in 1 .. MaxBatch, NEW k \in Keys, NEW v \in Values,
             BeginPut(d, l, n, k, v), c \notin solo
      PROVE  c = d /\ QuietKey(k)
  BY <1>1 DEF BeginPut
<1>2. ASSUME NEW d \in Clients, EndPut(d) PROVE c \in solo
  BY <1>2 DEF EndPut
<1>3. ASSUME Crash PROVE c \in solo
  BY <1>3 DEF Crash
<1>4. ASSUME NEW r \in Readers, NEW k \in Keys, ReadWithResponses(r, k) PROVE c \in solo
  BY <1>4 DEF ReadWithResponses
<1> QED BY <1>1, <1>2, <1>3, <1>4, GhostFrame

\* A request that begins on a key that is quiet.
LEMMA SoloBegins ==
    ASSUME CallType, RepairType, NEW c \in Clients, NEW l \in Levels, NEW n \in 1 .. MaxBatch, NEW k \in Keys,
           NEW v \in Values, BeginPut(c, l, n, k, v), QuietKey(k)
    PROVE  SoloOK(c)'
<1>1. /\ call[c].pc = "idle" /\ call'[c].pc = "save"
      /\ call'[c].key = k /\ call'[c].val = v /\ call'[c].wait = {} /\ call'[c].took = {}
      /\ \A d \in Callers : d # c => call'[d] = call[d]
      /\ UNCHANGED << hints, file, replay, read, queue, worker >>
  BY BeginIs
<1>2. \A d \in Callers : Busy(d) => call[d].key # k
  BY DEF QuietKey, OnKey, Busy
<1>3. \A d \in Callers : d # c /\ Busy(d)' => call'[d].key # k
  BY <1>1, <1>2 DEF Busy
<1>4. \A r \in Replayers : r \in Callers /\ r # c
  BY CoordinatorAssumption DEF Callers
<1>5. Sources(k, v)'
  <2>1. \A m \in Nodes : \A i \in DOMAIN hints'[m] : Of(hints'[m][i], k, v)
    BY <1>1 DEF QuietKey, Of
  <2>2. \A i \in DOMAIN file' : file'[i] # Hole => Of(file'[i].hint, k, v)
    BY <1>1 DEF QuietKey, Of
  <2>3. \A r \in Replayers : \A i \in DOMAIN replay'[r].left : Of(replay'[r].left[i], k, v)
    BY <1>1 DEF QuietKey, Of
  <2>4. \A r \in Replayers : Busy(r)' => Of(call'[r], k, v)
    BY <1>3, <1>4 DEF Of
  <2> QED BY <2>1, <2>2, <2>3, <2>4 DEF Sources, Of, Busy
<1>6. Tasks(k, v)'
  BY <1>1 DEF QuietKey, Tasks, Of
<1>7. \A d \in Clients : d # c /\ Busy(d)' => call'[d].key # k
  BY <1>3 DEF Callers
<1>8. \A r \in Readers : ~ReadOf(r, k)'
  BY <1>1 DEF QuietKey, ReadOf
<1>9. Took(call[c])'
  BY <1>1 DEF Took
<1>10. (Sources(call[c].key, call[c].val) /\ Tasks(call[c].key, call[c].val))'
  BY <1>1, <1>5, <1>6 DEF Sources, Tasks, Of, Busy
<1>11. \A r \in Readers : ~ReadOf(r, call[c].key)'
  BY <1>1, <1>8 DEF ReadOf
<1>12. Busy(c)' /\ \A d \in Clients : d # c /\ Busy(d)' => call'[d].key # call'[c].key
  BY <1>1, <1>7 DEF Busy
<1> QED BY <1>9, <1>10, <1>11, <1>12 DEF SoloOK, Busy

\* Who else may come to a key: a request that begins or goes on with the next
\* entity of its batch, and a read that begins.
LEMMA OthersComeFrom ==
    ASSUME CallType, DataType, ReplayType, [Next]_vars, NEW d \in Clients, NEW k, Busy(d)', call'[d].key = k
    PROVE  \/ Busy(d) /\ call[d].key = k
           \/ \E l \in Levels, n \in 1 .. MaxBatch, v \in Values : k \in Keys /\ BeginPut(d, l, n, k, v)
           \/ EndPut(d) /\ call'[d].pc = "save"
<1>1. d \in Callers /\ d \notin Replayers
  BY CoordinatorAssumption DEF Callers
<1>2. CallOrigin(d)
  BY <1>1, CallComesFrom
<1>3. CASE Busy(d) /\ GoesOn(d)
  BY <1>3 DEF GoesOn
<1>4. CASE BeginsPut(d)
  <2>1. PICK l \in Levels, n \in 1 .. MaxBatch, j \in Keys, v \in Values : BeginPut(d, l, n, j, v)
    BY <1>4 DEF BeginsPut
  <2>2. j = k
    BY <2>1, BeginIs
  <2> QED BY <2>1, <2>2
<1>5. CASE EndPut(d)
  BY <1>5, EndIs DEF Busy
<1> QED BY <1>1, <1>2, <1>3, <1>4, <1>5 DEF CallOrigin

LEMMA ReadsComeFrom ==
    ASSUME ReadType, [Next]_vars, NEW r \in Readers, NEW k, ReadOf(r, k)'
    PROVE  \/ ReadOf(r, k) /\ \E A \in NewAnswers(r) : read'[r].resp = read[r].resp \cup A
           \/ k \in Keys /\ ReadWithResponses(r, k) /\ read'[r].resp = {}
BY ReadComesFrom DEF ReadOrigin, ReadsOn, ReadOf

\* A request keeps its key to itself until it ends, the process dies, or another
\* request or a read comes to the key.
LEMMA SoloStep ==
    ASSUME ClusterType, [Next]_vars, NEW c \in solo, c \in solo', SoloOK(c)
    PROVE  SoloOK(c)'
<1>0. CallType /\ DataType /\ ReplayType /\ StoreType /\ FlushType /\ ReadType /\ RepairType /\ c \in Clients
  BY DEF ClusterType, GhostType
<1>1. PICK k, v : k = call[c].key /\ v = call[c].val
  OBVIOUS
<1>2. /\ Busy(c) /\ Sources(k, v) /\ Tasks(k, v) /\ Took(call[c])
      /\ \A d \in Clients : d # c /\ Busy(d) => call[d].key # k
      /\ \A r \in Readers : ~ReadOf(r, k)
  BY <1>1 DEF SoloOK
<1>3. c \in Callers /\ c \notin Replayers /\ k \in Keys
  BY <1>0, <1>1, <1>2, CoordinatorAssumption DEF Callers, CallType, Busy
<1>4. c \in OnKey(k)
  BY <1>1, <1>2, <1>3 DEF OnKey, Busy
<1>5. ~EndPut(c) /\ ~Crash
  BY DEF EndPut, Crash
<1>6. ~BeginsPut(c)
  BY <1>2 DEF BeginsPut, BeginPut, PutEntity, Busy
<1>7. Busy(c)' /\ GoesOn(c)
  <2>1. CallOrigin(c)
    BY <1>0, <1>3, CallComesFrom
  <2> QED BY <1>2, <1>3, <1>5, <1>6, <2>1 DEF CallOrigin
<1>8. call'[c].key = k /\ call'[c].val = v
  BY <1>1, <1>7 DEF GoesOn
<1>9. \A d \in Clients : Busy(d) => Of(call[d], k, v)
  BY <1>1, <1>2 DEF Of
<1>10. Sources(k, v)'
  BY <1>0, <1>2, <1>9, SourcesStep
<1>11. Tasks(k, v)'
  <2>1. ASSUME NEW r \in Readers, NEW t \in Repairs(r), read[r].pc = "check" PROVE Of(t, k, v)
    <3>1. t.key = read[r].key
      BY DEF Repairs
    <3> QED BY <1>2, <2>1, <3>1 DEF Of, ReadOf
  <2> QED BY <1>0, <1>2, <2>1, TasksStep
<1>12. ASSUME NEW d \in Clients, d # c, Busy(d)' PROVE call'[d].key # k
  <2> SUFFICES ASSUME call'[d].key = k PROVE FALSE
    OBVIOUS
  <2>1. ~(Busy(d) /\ call[d].key = k)
    BY <1>2, <1>12
  <2>2. ASSUME NEW l \in Levels, NEW n \in 1 .. MaxBatch, NEW u \in Values, BeginPut(d, l, n, k, u) PROVE FALSE
    BY <1>4, <2>2 DEF BeginPut, QuietKey
  <2>3. ASSUME EndPut(d), call'[d].pc = "save" PROVE FALSE
    BY <1>4, <2>3 DEF EndPut
  <2> QED BY <1>0, <1>12, <2>1, <2>2, <2>3, OthersComeFrom
<1>13. ASSUME NEW r \in Readers PROVE ~ReadOf(r, k)'
  <2>1. ASSUME ReadWithResponses(r, k) PROVE FALSE
    BY <1>4, <2>1 DEF ReadWithResponses
  <2> QED BY <1>0, <1>2, <2>1, ReadsComeFrom
<1>14. Took(call[c])'
  <2>1. AliveReplicas(k) \subseteq Replicas(k) /\ Replicas(k) \subseteq Nodes
    BY <1>3, ReplicasAre
  <2>2. /\ call[c].wait \subseteq Replicas(k) /\ call[c].took \subseteq Replicas(k)
        /\ \A n \in call[c].took : data[n][k] = v
    BY <1>1, <1>2 DEF Took
  <2>3. /\ call'[c].wait \subseteq call[c].wait \cup AliveReplicas(k)
        /\ call'[c].took \subseteq call[c].took \cup {n \in call[c].wait : data'[n][k] = v}
    BY <1>1, <1>7 DEF GoesOn
  <2>4. ASSUME NEW n \in call[c].took PROVE data'[n][k] = v
    BY <1>0, <1>2, <1>3, <1>9, <2>1, <2>2, HoldsStep
  <2>5. Replicas(k)' = Replicas(k)
    BY DEF Replicas
  <2>6. /\ call'[c].wait \cup call'[c].took \subseteq Replicas(k)
        /\ \A n \in call'[c].took : data'[n][k] = v
    BY <2>1, <2>2, <2>3, <2>4
  <2> QED BY <1>8, <2>5, <2>6 DEF Took, Replicas
<1>15. (Sources(call[c].key, call[c].val) /\ Tasks(call[c].key, call[c].val))'
  BY <1>8, <1>10, <1>11 DEF Sources, Tasks, Of, Busy
<1>16. \A r \in Readers : ~ReadOf(r, call[c].key)'
  BY <1>8, <1>13 DEF ReadOf
<1>17. \A d \in Clients : d # c /\ Busy(d)' => call'[d].key # call'[c].key
  BY <1>8, <1>12
<1> QED BY <1>7, <1>14, <1>15, <1>16, <1>17 DEF SoloOK, Busy

\* A write whose key is let alone stays on its quorum: hints, replays and repairs
\* of the key carry its value.
LEMMA AckedKept ==
    ASSUME ReplicaCount <= 4, ClusterType, [Next]_vars, NEW k \in Keys, NEW v, AckedOK(k, v),
           \A r \in Readers : AskedOnce(read[r]),
           \A c \in Clients : Busy(c)' => call'[c].key # k
    PROVE  AckedOK(k, v)'
<1>0. CallType /\ DataType /\ ReplayType /\ StoreType /\ FlushType /\ ReadType /\ RepairType
  BY DEF ClusterType
<1>1. /\ Sources(k, v) /\ Tasks(k, v)
      /\ \A c \in Clients : Busy(c) => call[c].key # k
  BY DEF AckedOK
<1>2. PICK S : HeldBy(k, v, S)
  BY DEF AckedOK
<1>3. \A c \in Clients : Busy(c) => Of(call[c], k, v)
  BY <1>1 DEF Of
<1>4. Sources(k, v)'
  BY <1>0, <1>1, <1>3, SourcesStep
<1>5. Tasks(k, v)'
  <2>1. ASSUME NEW r \in Readers, NEW t \in Repairs(r), read[r].pc = "check" PROVE Of(t, k, v)
    BY <1>0, <1>2, <2>1, RepairsCarry
  <2> QED BY <1>0, <1>1, <2>1, TasksStep
<1>6. S \subseteq Replicas(k) /\ Cardinality(S) >= Quorum /\ Replicas(k) \subseteq Nodes
  BY <1>2, ReplicasAre DEF HeldBy
<1>7. ASSUME NEW n \in S PROVE data[n][k] = v /\ data'[n][k] = v
  <2>1. n \in Nodes /\ data[n][k] = v
    BY <1>2, <1>6 DEF HeldBy
  <2> QED BY <1>0, <1>1, <1>3, <2>1, HoldsStep
<1>8. ASSUME NEW r \in Readers, ReadOf(r, k)', NEW a \in read'[r].resp, a.node \in S PROVE a.val = v
  <2>1. CASE read'[r].resp = {}
    BY <1>8, <2>1
  <2>2. ASSUME ReadOf(r, k), NEW A \in NewAnswers(r), read'[r].resp = read[r].resp \cup A PROVE a.val = v
    <3>1. CASE a \in read[r].resp
      BY <1>2, <1>8, <2>2, <3>1 DEF HeldBy
    <3>2. CASE a \in A
      <4>1. PICK n \in read[r].wait : a = [node |-> n, val |-> data[n][k]]
        BY <2>2, <3>2 DEF NewAnswers, ReadOf
      <4> QED BY <1>7, <1>8, <4>1
    <3> QED BY <1>8, <2>2, <3>1, <3>2
  <2> QED BY <1>0, <1>8, <2>1, <2>2, ReadsComeFrom
<1>9. HeldBy(k, v, S)'
  BY <1>6, <1>7, <1>8 DEF HeldBy, ReadOf, Replicas
<1> QED BY <1>4, <1>5, <1>9 DEF AckedOK, Busy

\* A write that has had its key to itself and is acknowledged with a quorum.
LEMMA AckedBegins ==
    ASSUME ClusterType, QuorumInv, NEW c \in Clients, NEW k, NEW v, k = call[c].key, v = call[c].val,
           EndPut(c), SoloOK(c), ~mixed, call[c].res, Promised(call[c].level) >= Quorum,
           ~(call'[c].pc = "save" /\ call'[c].key = k)
    PROVE  AckedOK(k, v)'
<1>0. CallType
  BY DEF ClusterType
<1>1. PICK S : S = call[c].took
  OBVIOUS
<1>2. /\ Busy(c) /\ Sources(k, v) /\ Tasks(k, v) /\ Took(call[c])
      /\ \A d \in Clients : d # c /\ Busy(d) => call[d].key # k
      /\ \A r \in Readers : ~ReadOf(r, k)
  BY DEF SoloOK
<1>3. /\ call'[c].pc \in {"idle", "save"} /\ call[c].pc = "done"
      /\ \A d \in Callers : d # c => call'[d] = call[d]
      /\ UNCHANGED << data, hints, file, replay, read, queue, worker >>
  BY <1>0, EndIs
<1>4. HeldBy(k, v, S)'
  <2>1. S \subseteq Replicas(k) /\ \A n \in S : data'[n][k] = v
    BY <1>1, <1>2, <1>3 DEF Took
  <2>2. Cardinality(S) >= Promised(call[c].level)
    BY <1>1, <1>3 DEF QuorumInv, AckOK
  <2>3. S \in SUBSET Nodes /\ k \in Keys
    BY <1>0, <1>1, <1>2 DEF CallType, CallRec, Callers, Busy
  <2>4. IsFiniteSet(S) /\ Cardinality(S) \in Nat
    BY <2>1, <2>3, ReplicasAre, FS_Subset, FS_CardinalityType
  <2>5. Quorum \in Nat /\ Promised(call[c].level) \in Nat
    BY ConfigFacts, CoordinatorAssumption DEF Promised
  <2> HIDE DEF Quorum, Promised
  <2>6. Cardinality(S) >= Quorum
    BY <2>2, <2>4, <2>5
  <2>7. \A r \in Readers : ~ReadOf(r, k)'
    BY <1>2, <1>3 DEF ReadOf
  <2>8. /\ S \subseteq Replicas(k)
        /\ \A n \in S : data'[n][k] = v
        /\ \A r \in Readers : ReadOf(r, k)' => \A a \in read'[r].resp : a.node \in S => a.val = v
    BY <2>1, <2>7
  <2> QED BY <2>6, <2>8 DEF HeldBy, ReadOf, Replicas
<1>5. \A r \in Replayers : r \in Callers /\ r # c
  BY CoordinatorAssumption DEF Callers
<1>6. Sources(k, v)'
  <2>1. /\ \A n \in Nodes : \A i \in DOMAIN hints'[n] : Of(hints'[n][i], k, v)
        /\ \A i \in DOMAIN file' : file'[i] # Hole => Of(file'[i].hint, k, v)
        /\ \A r \in Replayers : \A i \in DOMAIN replay'[r].left : Of(replay'[r].left[i], k, v)
    BY <1>2, <1>3 DEF Sources
  <2>2. \A r \in Replayers : Busy(r)' => Of(call'[r], k, v)
    BY <1>2, <1>3, <1>5 DEF Sources, Busy
  <2> QED BY <2>1, <2>2 DEF Sources, Of, Busy
<1>7. Tasks(k, v)'
  BY <1>2, <1>3 DEF Tasks, Of
<1>8. ASSUME NEW d \in Clients, Busy(d)' PROVE call'[d].key # k
  <2>1. CASE d = c
    BY <1>3, <1>8, <2>1 DEF Busy
  <2>2. CASE d # c
    BY <1>2, <1>3, <1>8, <2>2 DEF Busy, Callers
  <2> QED BY <2>1, <2>2
<1> QED BY <1>4, <1>6, <1>7, <1>8 DEF AckedOK, Busy

\* An acknowledged value is that of before, or of the request that ends.
LEMMA AckedStep ==
    ASSUME ReplicaCount <= 4, ClusterType, QuorumInv, HeldInv, [Next]_vars,
           NEW k \in Keys, NEW v, v = acked'[k], v # NoValue
    PROVE  AckedOK(k, v)'
<1>0. CallType /\ DataType /\ ReplayType /\ ReadType /\ acked \in [Keys -> OptValues]
  BY DEF ClusterType, GhostType
<1>1. CASE v = acked[k]
  <2>1. AckedOK(k, v)
    BY <1>1 DEF HeldInv
  <2>2. ASSUME NEW c \in Clients, Busy(c)', call'[c].key = k PROVE FALSE
    <3>1. ~(Busy(c) /\ call[c].key = k)
      BY <2>1 DEF AckedOK
    <3>2. ASSUME NEW l \in Levels, NEW n \in 1 .. MaxBatch, NEW u \in Values, BeginPut(c, l, n, k, u) PROVE FALSE
      BY <1>0, <3>2 DEF BeginPut
    <3>3. ASSUME EndPut(c), call'[c].pc = "save" PROVE FALSE
      BY <2>2, <3>3 DEF EndPut
    <3> QED BY <1>0, <2>2, <3>1, <3>2, <3>3, OthersComeFrom
  <2>3. \A r \in Readers : AskedOnce(read[r])
    BY DEF HeldInv
  <2> QED BY <2>1, <2>2, <2>3, AckedKept
<1>2. CASE v # acked[k]
  <2>1. ASSUME NEW c \in Clients, NEW l \in Levels, NEW n \in 1 .. MaxBatch, NEW j \in Keys, NEW u \in Values,
               BeginPut(c, l, n, j, u)
        PROVE  FALSE
    BY <1>0, <1>2, <2>1 DEF BeginPut
  <2>2. ASSUME NEW r \in Readers, NEW j \in Keys, ReadWithResponses(r, j) PROVE FALSE
    BY <1>2, <2>2 DEF ReadWithResponses
  <2>3. ASSUME Crash PROVE FALSE
    BY <1>2, <2>3 DEF Crash
  <2>4. PICK c \in Clients : EndPut(c)
    BY <1>2, <2>1, <2>2, <2>3, GhostFrame
  <2>5. /\ ~(call'[c].pc = "save" /\ call'[c].key = k)
        /\ k = call[c].key /\ v = call[c].val /\ c \in solo /\ ~mixed
        /\ call[c].res /\ Promised(call[c].level) >= Quorum
    BY <1>2, <2>4 DEF EndPut
  <2>6. SoloOK(c)
    BY <2>5 DEF HeldInv
  <2> QED BY <2>4, <2>5, <2>6, AckedBegins
<1> QED BY <1>1, <1>2

LEMMA HeldStep ==
    ASSUME ReplicaCount <= 4, ClusterType, QuorumInv, HeldInv, [Next]_vars
    PROVE  HeldInv'
<1>0. CallType /\ RepairType /\ ReadType
  BY DEF ClusterType
<1>1. ASSUME NEW r \in Readers PROVE AskedOnce(read[r])'
  BY <1>0, AskedStep DEF HeldInv
<1>2. ASSUME NEW c \in solo' PROVE SoloOK(c)'
  <2>1. CASE c \in solo
    <3>1. SoloOK(c)
      BY <2>1 DEF HeldInv
    <3> QED BY <1>2, <2>1, <3>1, SoloStep
  <2>2. ASSUME NEW l \in Levels, NEW n \in 1 .. MaxBatch, NEW k \in Keys, NEW v \in Values,
               c \in Clients, BeginPut(c, l, n, k, v), QuietKey(k)
        PROVE  SoloOK(c)'
    BY <1>0, <2>2, SoloBegins
  <2> QED BY <1>2, <2>1, <2>2, SoloComesFrom
<1>3. ASSUME NEW k \in Keys, acked'[k] # NoValue PROVE AckedOK(k, acked[k])'
  <2>1. PICK v : v = acked'[k]
    OBVIOUS
  <2>2. AckedOK(k, v)'
    BY <1>3, <2>1, AckedStep
  <2> QED BY <2>1, <2>2 DEF AckedOK, HeldBy, Sources, Tasks, Of, Busy, ReadOf, Replicas
<1> QED BY <1>1, <1>2, <1>3 DEF HeldInv

LEMMA HeldInductive ==
    ASSUME ReplicaCount <= 4
    PROVE  Spec => []HeldInv
<1>1. Init => HeldInv
  <2> SUFFICES ASSUME Init PROVE HeldInv
    OBVIOUS
  <2>1. NoRead.pc = "idle" /\ NoRead.resp = {}
    BY DEF NoRead
  <2>2. AskedOnce(NoRead)
    BY <2>1 DEF AskedOnce
  <2> QED BY <2>2 DEF Init, HeldInv
<1>2. IInv /\ QuorumInv /\ HeldInv /\ [Next]_vars => HeldInv'
  BY HeldStep DEF IInv
<1> QED BY <1>1, <1>2, Inductive, QuorumInductive, PTL DEF Spec

\* A write that had its key to itself and was acknowledged with a quorum stays on
\* a quorum of the replicas until the next write of the key, with up to four
\* replicas and whatever crashes, fails, is read, repaired or replayed: the
\* majority of the answers to a read then is never another value.
THEOREM AcknowledgedIsHeld ==
    ASSUME ReplicaCount <= 4
    PROVE  Spec => []AckedHeld
<1>1. HeldInv => AckedHeld
  <2> SUFFICES ASSUME HeldInv, NEW k \in Keys, acked[k] # NoValue
               PROVE  Cardinality({n \in Replicas(k) : data[n][k] = acked[k]}) >= Quorum
    BY DEF AckedHeld, Replicas
  <2> DEFINE H == {n \in Replicas(k) : data[n][k] = acked[k]}
  <2>1. PICK S : HeldBy(k, acked[k], S)
    BY DEF HeldInv, AckedOK
  <2>2. S \subseteq H /\ Cardinality(S) >= Quorum /\ H \subseteq Replicas(k) /\ Quorum \in Nat
    BY <2>1, ConfigFacts DEF HeldBy
  <2> HIDE DEF H
  <2>3. IsFiniteSet(H) /\ Cardinality(H) \in Nat
    BY <2>2, ReplicasAre, FS_Subset, FS_CardinalityType
  <2>4. IsFiniteSet(S) /\ Cardinality(S) \in Nat /\ Cardinality(S) <= Cardinality(H)
    BY <2>2, <2>3, FS_Subset, FS_CardinalityType
  <2> HIDE DEF Quorum
  <2>5. Cardinality(H) >= Quorum
    BY <2>2, <2>3, <2>4
  <2> QED BY <2>5 DEF H
<1> QED BY <1>1, HeldInductive, PTL

\* A read that began after such a write was acknowledged, and has a quorum of
\* answers, has the value of the write among them: it meets the quorum that holds it.
THEOREM QuorumReadsMeet ==
    ASSUME ReplicaCount <= 4
    PROVE  Spec => []QuorumReadMeets
<1>1. ClusterType /\ HeldInv => QuorumReadMeets
  <2> SUFFICES ASSUME ClusterType, HeldInv, NEW r \in Readers, read[r].pc = "check",
                      Cardinality(read[r].resp) >= Quorum,
                      read[r].expect # NoValue, acked[read[r].key] = read[r].expect
               PROVE  read[r].expect \in Answered(r)
    BY DEF QuorumReadMeets
  <2> DEFINE k == read[r].key
  <2> DEFINE v == read[r].expect
  <2> DEFINE resp == read[r].resp
  <2> DEFINE A == {a.node : a \in resp}
  <2> DEFINE R == Replicas(k)
  <2>1. /\ k \in Keys /\ IsFiniteSet(resp)
        /\ v \in Values
        /\ \A a \in resp : a.node \in read[r].sent
    BY DEF ClusterType, ReadType, ReadSound, ReadRec, OptValues
  <2>2. PICK S : HeldBy(k, v, S)
    BY <2>1 DEF HeldInv, AckedOK
  <2>3. AskedOnce(read[r])
    BY DEF HeldInv
  <2>4. A \subseteq R /\ S \subseteq R /\ Cardinality(S) >= Quorum
    BY <2>1, <2>2, <2>3 DEF AskedOnce, HeldBy
  <2>5. /\ IsFiniteSet(R) /\ Cardinality(R) \in Nat /\ Cardinality(R) <= ReplicaCount
    BY <2>1, ReplicasAre
  <2>6. Cardinality(resp) <= Cardinality(A)
    <3> DEFINE f == [a \in resp |-> a.node]
    <3>1. f \in Injection(resp, A)
      <4>1. f \in [resp -> A]
        OBVIOUS
      <4>2. \A a, b \in resp : f[a] = f[b] => a = b
        BY <2>3 DEF AskedOnce
      <4> HIDE DEF f
      <4> QED BY <4>1, <4>2 DEF Injection, IsInjective
    <3>2. IsFiniteSet(A)
      <4> HIDE DEF A, R
      <4> QED BY <2>4, <2>5, FS_Subset
    <3> HIDE DEF f, A, resp
    <3> QED BY <3>1, <3>2, FS_Injection
  <2>7. Cardinality(resp) >= Quorum
    OBVIOUS
  <2>8. S \cap A # {}
    <3> HIDE DEF A, R, resp, k, v
    <3>1. IsFiniteSet(S) /\ IsFiniteSet(A)
      BY <2>4, <2>5, FS_Subset
    <3>2. Cardinality(S) \in Nat /\ Cardinality(A) \in Nat /\ Cardinality(resp) \in Nat
      BY <2>1, <3>1, FS_CardinalityType
    <3> HIDE DEF Quorum
    <3>3. Quorum \in Nat /\ ReplicaCount \in Nat /\ ReplicaCount < Quorum + Quorum
      BY FewOutside
    <3>4. Cardinality(S) + Cardinality(A) > Cardinality(R)
      BY <2>4, <2>5, <2>6, <2>7, <3>2, <3>3
    <3> QED BY <2>4, <2>5, <3>4, FS_MajoritiesIntersect
  <2>9. PICK a \in resp : a.node \in S
    BY <2>8
  <2>10. a.val = v
    BY <2>2, <2>9 DEF HeldBy, ReadOf
  <2>11. Group(r, v) # {}
    BY <2>9, <2>10 DEF Group
  <2> QED BY <2>1, <2>11 DEF Answered
<1>2. IInv => ClusterType
  BY DEF IInv
<1> QED BY <1>1, <1>2, Inductive, HeldInductive, PTL
=============================================================================
