------------------------------- MODULE Gossip -------------------------------
(***************************************************************************)
(* Gossip (core/cluster/gossip/gossip.go): every node has a generation,    *)
(* which a restart raises, and a heartbeat, and keeps a view of the others *)
(* that it updates by the exchange of SYN, ACK and ACK2 with the peers it  *)
(* knows. A message has a connection of its own (TCPTransport in           *)
(* cmd/allidbd/main.go): it may be lost, and overtake others.              *)
(*                                                                         *)
(* handleSyn and handleAck answer the node that the transport says the     *)
(* message is from. TCPTransport, and the transport of the tests, name the *)
(* node the message was sent to: transport "addressed". One that names the *)
(* sender, as the handlers expect, is "sender". The application state is   *)
(* left out: nothing but GetSSTableVersion looks at it.                    *)
(***************************************************************************)
EXTENDS Naturals, FiniteSets

CONSTANTS
    Peers,           \* the nodes
    Transports,      \* "addressed", "sender"
    Faults,          \* "loss" of messages, "removal" of known nodes
    Movers,          \* bound: the nodes that restart and raise their heartbeat
    MaxGeneration,   \* bound: starts of a node
    MaxHeartbeat,    \* bound: calls of IncrementHeartbeat in a generation
    MaxInFlight      \* bound: messages in flight

ASSUME GossipAssumption ==
    /\ Movers \subseteq Peers
    /\ MaxGeneration \in Nat /\ MaxHeartbeat \in Nat /\ MaxInFlight \in Nat

VARIABLES
    transport,
    local,   \* local[n]: generation and heartbeat of the node itself
    view,    \* view[n]: endpointStates, for the nodes it has heard of
    known,   \* known[n]: the peers it may send a SYN to
    net      \* the messages in flight and in the receive channels

gossipVars == <<transport, local, view, known, net>>

\* Version a is newer than b.
Newer(a, b) == a.gen > b.gen \/ (a.gen = b.gen /\ a.hb > b.hb)

Digest(s) == [gen |-> s.gen, hb |-> s.hb]

\* NewGossip and Start: the seeds are known.
GossipInit ==
    /\ transport \in Transports
    /\ local = [n \in Peers |-> [gen |-> 1, hb |-> 0]]
    /\ view = [n \in Peers |-> << >>]
    /\ known = [n \in Peers |-> Peers]
    /\ net = {}

\* A message from n to p, which may be lost; the receive channel drops what it
\* has no room for.
Message(kind, n, p, body) ==
    [kind |-> kind, to |-> p, from |-> IF transport = "sender" THEN n ELSE p, body |-> body]
Sent(rest, m) ==
    (IF Cardinality(rest) < MaxInFlight THEN {rest \cup {m}} ELSE {rest})
        \cup (IF "loss" \in Faults THEN {rest} ELSE {})

\* gossipWithPeer, with the digest of buildDigest.
BuildDigest(n) ==
    [m \in DOMAIN view[n] \cup {n} |->
        IF m \in DOMAIN view[n] THEN Digest(view[n][m]) ELSE local[n]]

GossipWithPeer(n, p) ==
    /\ p \in known[n] \ {n}
    /\ net' \in Sent(net, Message("syn", n, p, BuildDigest(n)))
    /\ UNCHANGED <<transport, local, view, known>>

\* Mutant: what was received last counts.
TakesAll(v, states) ==
    [m \in DOMAIN v \cup DOMAIN states |->
        IF m \in DOMAIN states THEN [gen |-> states[m].gen, hb |-> states[m].hb, state |-> "alive"]
        ELSE v[m]]

\* updateEndpointState, for each of the states received.
Update(v, states) ==
    LET Accepted(m) == m \in DOMAIN states /\ (m \in DOMAIN v => Newer(states[m], v[m]))
    IN [m \in DOMAIN v \cup DOMAIN states |->
          IF Accepted(m) THEN [gen |-> states[m].gen, hb |-> states[m].hb, state |-> "alive"]
          ELSE v[m]]

\* handleSyn: what the digest has older than the view, and the local state
\* unless the digest has it.
AckStates(n, digest) ==
    LET stale == {m \in DOMAIN digest \cap DOMAIN view[n] : Newer(view[n][m], digest[m])}
        self == IF n \in DOMAIN digest => Newer(local[n], digest[n]) THEN {n} ELSE {}
    IN [m \in stale \cup self |-> IF m = n /\ n \in self THEN local[n] ELSE Digest(view[n][m])]

HandleSyn(msg) ==
    LET n == msg.to IN
    /\ msg.kind = "syn"
    /\ net' \in Sent(net \ {msg}, Message("ack", n, msg.from,
                                          [digest |-> [m \in {n} |-> local[m]], states |-> AckStates(n, msg.body)]))
    /\ UNCHANGED <<transport, local, view, known>>

\* handleAck: the states are taken, and an ACK2 carries what is newer here.
HandleAck(msg) ==
    LET n == msg.to
        after == Update(view[n], msg.body.states)
        stale == {m \in DOMAIN msg.body.digest \cap DOMAIN after : Newer(after[m], msg.body.digest[m])}
    IN /\ msg.kind = "ack"
       /\ view' = [view EXCEPT ![n] = after]
       /\ net' \in Sent(net \ {msg}, Message("ack2", n, msg.from, [m \in stale |-> Digest(after[m])]))
       /\ UNCHANGED <<transport, local, known>>

HandleAck2(msg) ==
    /\ msg.kind = "ack2"
    /\ view' = [view EXCEPT ![msg.to] = Update(@, msg.body)]
    /\ net' = net \ {msg}
    /\ UNCHANGED <<transport, local, known>>

\* checkDeadNodes, when the last update of m is too long ago.
CheckDeadNodes(n, m) ==
    /\ m \in DOMAIN view[n] /\ view[n][m].state = "alive"
    /\ view' = [view EXCEPT ![n][m].state = "dead"]
    /\ UNCHANGED <<transport, local, known, net>>

IncrementHeartbeat(n) ==
    /\ local[n].hb < MaxHeartbeat
    /\ local' = [local EXCEPT ![n].hb = @ + 1]
    /\ UNCHANGED <<transport, view, known, net>>

\* Mutant: the generation is the same as before.
RestartsInPlace(n) ==
    /\ local[n].hb > 0
    /\ local' = [local EXCEPT ![n].hb = 0]
    /\ view' = [view EXCEPT ![n] = << >>]
    /\ known' = [known EXCEPT ![n] = Peers]
    /\ net' = {msg \in net : msg.to # n}
    /\ UNCHANGED transport

\* The node stops and starts again: a new generation, which knows the seeds.
Restart(n) ==
    /\ local[n].gen < MaxGeneration
    /\ local' = [local EXCEPT ![n] = [gen |-> @.gen + 1, hb |-> 0]]
    /\ view' = [view EXCEPT ![n] = << >>]
    /\ known' = [known EXCEPT ![n] = Peers]
    /\ net' = {msg \in net : msg.to # n}
    /\ UNCHANGED transport

\* AddNode and RemoveNode, which also forgets the endpoint state.
AddKnown(n, m) ==
    /\ m \notin known[n]
    /\ known' = [known EXCEPT ![n] = @ \cup {m}]
    /\ UNCHANGED <<transport, local, view, net>>

RemoveKnown(n, m) ==
    /\ "removal" \in Faults /\ m \in known[n] \ {n}
    /\ known' = [known EXCEPT ![n] = @ \ {m}]
    /\ view' = [view EXCEPT ![n] = [x \in DOMAIN @ \ {m} |-> @[x]]]
    /\ UNCHANGED <<transport, local, net>>

Receive(msg) == HandleSyn(msg) \/ HandleAck(msg) \/ HandleAck2(msg)

GossipNext ==
    \/ \E msg \in net : Receive(msg)
    \/ \E n, m \in Peers :
          GossipWithPeer(n, m) \/ CheckDeadNodes(n, m) \/ AddKnown(n, m) \/ RemoveKnown(n, m)
    \/ \E n \in Movers : IncrementHeartbeat(n) \/ Restart(n)

GossipSpec == GossipInit /\ [][GossipNext]_gossipVars

\* gossipLoop has a turn every interval and takes any peer; the receive loop takes
\* what is in its channel.
GossipFairness ==
    /\ \A n, p \in Peers : SF_gossipVars(GossipWithPeer(n, p))
    /\ \A n \in Peers, kind \in {"syn", "ack", "ack2"} :
          WF_gossipVars(\E msg \in net : msg.to = n /\ msg.kind = kind /\ Receive(msg))

GossipFairSpec == GossipSpec /\ GossipFairness

-----------------------------------------------------------------------------
(* Properties.                                                             *)

\* No node believes in a version that the other has not reached, and none is
\* announced, whatever is lost, late or from before a restart.
ViewsNotAhead ==
    \A n \in Peers : \A m \in DOMAIN view[n] : ~Newer(view[n][m], local[m])

\* A late answer never takes a view back to an older generation or heartbeat,
\* and a node that was found dead comes alive only with a newer one.
ViewsOnlyGetNewer ==
    [][\A n \in Peers : local'[n].gen = local[n].gen =>
          \A m \in DOMAIN view[n] \cap DOMAIN view'[n] :
              /\ ~Newer(view[n][m], view'[n][m])
              /\ view[n][m].state = "dead" /\ view'[n][m].state = "alive"
                    => Newer(view'[n][m], view[n][m])]_gossipVars

\* A node that is known is discovered: the exchange of SYN and ACK with it ends in
\* an endpoint state for it.
Discovery == \A n, m \in Peers : n # m => (m \in known[n] ~> m \in DOMAIN view[n] \/ m \notin known[n])
=============================================================================
