---------------------------- MODULE GossipProofs ----------------------------
(***************************************************************************)
(* Proofs about Gossip for any set of nodes, any number of messages in     *)
(* flight, restarts and heartbeats: no node believes in a version that the *)
(* other has not reached, with an addressed transport none hears of        *)
(* another, and a view only gets newer.                                    *)
(***************************************************************************)
EXTENDS Gossip, TLAPS

-----------------------------------------------------------------------------
(* The inductive invariant.                                                *)

Version == [gen : Nat, hb : Nat]
Seen    == [gen : Nat, hb : Nat, state : {"alive", "dead"}]

\* Functions from some of the nodes to versions, or to entries of a view.
Views == UNION {[S -> Seen] : S \in SUBSET Peers}

TypeOK ==
    /\ transport \in Transports
    /\ local \in [Peers -> Version]
    /\ view \in [Peers -> Views]
    /\ known \in [Peers -> SUBSET Peers]

\* The states of a message to n are versions that the nodes have reached; an
\* addressed transport brings n nothing but its own.
Reached(states, n) ==
    /\ DOMAIN states \subseteq Peers
    /\ \A m \in DOMAIN states : states[m].gen \in Nat /\ states[m].hb \in Nat /\ ~Newer(states[m], local[m])
    /\ transport = "addressed" => DOMAIN states \subseteq {n}

\* What a message says was reached, also when its sender has restarted since.
Sound(msg) ==
    /\ msg.to \in Peers /\ msg.from \in Peers
    /\ transport = "addressed" => msg.from = msg.to
    /\ msg.kind = "ack" => Reached(msg.body.states, msg.to)
    /\ msg.kind = "ack2" => Reached(msg.body, msg.to)

InFlightSound == \A msg \in net : Sound(msg)

\* Why Discovery fails with the transports of this repository: the answers to
\* a SYN come back to the node that gives them.
HearNobody ==
    transport = "addressed" => \A n \in Peers : DOMAIN view[n] \subseteq {n}

GossipSound == ViewsNotAhead /\ HearNobody

IInv == TypeOK /\ GossipSound /\ InFlightSound

-----------------------------------------------------------------------------
(* Versions.                                                               *)

\* Newer is a strict order and total, so that what is not newer than a version
\* is not newer than a later one.
LEMMA NewerOrder ==
  ASSUME NEW a, NEW b, NEW c,
         a.gen \in Nat, a.hb \in Nat, b.gen \in Nat, b.hb \in Nat, c.gen \in Nat, c.hb \in Nat
  PROVE  /\ ~Newer(a, a)
         /\ Newer(a, b) => ~Newer(b, a)
         /\ ~Newer(a, b) /\ ~Newer(b, c) => ~Newer(a, c)
  BY DEF Newer

\* What a view holds.
LEMMA ViewParts ==
  ASSUME TypeOK, NEW n \in Peers
  PROVE  /\ view[n] \in Views /\ DOMAIN view[n] \subseteq Peers
         /\ \A m \in DOMAIN view[n] : view[n][m] \in Seen
         /\ \A m \in DOMAIN view[n] : view[n][m].gen \in Nat /\ view[n][m].hb \in Nat
  <1>1. view[n] \in Views
    BY DEF TypeOK
  <1>2. PICK S \in SUBSET Peers : view[n] \in [S -> Seen]
    BY <1>1 DEF Views
  <1>3. DOMAIN view[n] = S /\ \A m \in S : view[n][m] \in Seen
    BY <1>2
  <1>4. QED BY <1>1, <1>3 DEF Seen

\* A function from some of the nodes to entries is a view.
LEMMA IsView ==
  ASSUME NEW S \in SUBSET Peers, NEW v, v = [m \in S |-> v[m]], \A m \in S : v[m] \in Seen
  PROVE  v \in Views
  BY DEF Views

\* updateEndpointState keeps a view one and takes only newer versions.
LEMMA UpdateProperties ==
  ASSUME NEW v \in Views, NEW states, DOMAIN states \subseteq Peers,
         \A m \in DOMAIN states : states[m].gen \in Nat /\ states[m].hb \in Nat
  PROVE  /\ Update(v, states) \in Views
         /\ DOMAIN Update(v, states) = DOMAIN v \cup DOMAIN states
         /\ \A m \in DOMAIN Update(v, states) :
               \/ m \in DOMAIN v /\ Update(v, states)[m] = v[m]
               \/ /\ m \in DOMAIN states
                  /\ Update(v, states)[m].gen = states[m].gen /\ Update(v, states)[m].hb = states[m].hb
                  /\ m \in DOMAIN v => Newer(states[m], v[m])
  <1> DEFINE u == Update(v, states)
             T == DOMAIN v \cup DOMAIN states
             Accepted(m) == m \in DOMAIN states /\ (m \in DOMAIN v => Newer(states[m], v[m]))
  <1>1. PICK S \in SUBSET Peers : v \in [S -> Seen]
    BY DEF Views
  <1>2. u = [m \in T |-> IF Accepted(m) THEN [gen |-> states[m].gen, hb |-> states[m].hb, state |-> "alive"]
                         ELSE v[m]]
    BY DEF Update
  <1>3. T \in SUBSET Peers
    BY <1>1
  <1>4. ASSUME NEW m \in T PROVE u[m] \in Seen
    <2>1. CASE Accepted(m)
      BY <1>2, <2>1 DEF Seen
    <2>2. CASE ~Accepted(m)
      <3>1. m \in DOMAIN v
        BY <2>2
      <3>2. QED BY <1>1, <1>2, <2>2, <3>1
    <2>3. QED BY <2>1, <2>2
  <1>5. DOMAIN u = T /\ u = [m \in T |-> u[m]]
    BY <1>2
  <1>6. u \in Views
    <2> HIDE DEF u, T
    <2>1. QED BY <1>3, <1>4, <1>5, IsView
  <1>7. \A m \in T :
               \/ m \in DOMAIN v /\ u[m] = v[m]
               \/ /\ m \in DOMAIN states
                  /\ u[m].gen = states[m].gen /\ u[m].hb = states[m].hb
                  /\ m \in DOMAIN v => Newer(states[m], v[m])
    <2> TAKE m \in T
    <2>1. CASE Accepted(m)
      BY <1>2, <2>1
    <2>2. CASE ~Accepted(m)
      BY <1>2, <2>2
    <2>3. QED BY <2>1, <2>2
  <1>8. QED BY <1>5, <1>6, <1>7

-----------------------------------------------------------------------------
(* Messages.                                                               *)

\* No node goes back to an older version.
LocalGrows ==
    /\ local' \in [Peers -> Version]
    /\ \A m \in Peers : ~Newer(local[m], local'[m])

\* Versions of the nodes are pairs of numbers.
LEMMA LocalParts ==
  ASSUME NEW l \in [Peers -> Version], NEW m \in Peers
  PROVE  l[m].gen \in Nat /\ l[m].hb \in Nat
  BY DEF Version

\* A node that stays where it is does not go back.
LEMMA LocalRests == TypeOK /\ UNCHANGED local => LocalGrows
  <1> SUFFICES ASSUME TypeOK, UNCHANGED local PROVE LocalGrows
    OBVIOUS
  <1>1. local \in [Peers -> Version]
    BY DEF TypeOK
  <1>2. \A m \in Peers : ~Newer(local[m], local[m])
    BY <1>1, LocalParts, NewerOrder
  <1>3. QED BY <1>1, <1>2 DEF LocalGrows

\* What was reached stays reached.
LEMMA ReachedKept ==
  ASSUME TypeOK, UNCHANGED transport, LocalGrows, NEW states, NEW n, Reached(states, n)
  PROVE  Reached(states, n)'
  <1>1. ASSUME NEW m \in DOMAIN states PROVE ~Newer(states[m], local'[m])
    <2>1. m \in Peers /\ states[m].gen \in Nat /\ states[m].hb \in Nat /\ ~Newer(states[m], local[m])
      BY DEF Reached
    <2>2. /\ local[m].gen \in Nat /\ local[m].hb \in Nat
          /\ local'[m].gen \in Nat /\ local'[m].hb \in Nat /\ ~Newer(local[m], local'[m])
      BY <2>1, LocalParts DEF TypeOK, LocalGrows
    <2>3. QED BY <2>1, <2>2, NewerOrder
  <1>2. QED BY <1>1 DEF Reached

\* A message in flight stays sound.
LEMMA SoundKept ==
  ASSUME TypeOK, UNCHANGED transport, LocalGrows, NEW msg, Sound(msg)
  PROVE  Sound(msg)'
  BY ReachedKept DEF Sound

\* The parts of a message; the network holds what it held and perhaps this one.
LEMMA MessageParts ==
  ASSUME NEW kind, NEW n \in Peers, NEW p \in Peers, NEW body
  PROVE  LET m == Message(kind, n, p, body)
         IN  /\ m.kind = kind /\ m.to = p /\ m.body = body /\ m.from \in Peers
             /\ transport = "addressed" => m.from = p
  BY DEF Message

LEMMA SentParts ==
  ASSUME NEW rest, NEW m, NEW s \in Sent(rest, m)
  PROVE  s \subseteq rest \cup {m}
  BY DEF Sent

\* The network after a step that sent nothing unsound.
LEMMA FlightStep ==
  ASSUME TypeOK, InFlightSound, UNCHANGED transport, LocalGrows,
         \A msg \in net' : msg \in net \/ Sound(msg)
  PROVE  InFlightSound'
  BY SoundKept DEF InFlightSound

\* handleSyn and handleAck send what they have.
LEMMA AckStatesReached ==
  ASSUME TypeOK, GossipSound, NEW n \in Peers, NEW digest
  PROVE  Reached(AckStates(n, digest), n)
  <1> DEFINE stale == {m \in DOMAIN digest \cap DOMAIN view[n] : Newer(view[n][m], digest[m])}
             self == IF n \in DOMAIN digest => Newer(local[n], digest[n]) THEN {n} ELSE {}
             a == AckStates(n, digest)
  <1>1. a = [m \in stale \cup self |-> IF m = n /\ n \in self THEN local[n] ELSE Digest(view[n][m])]
    BY DEF AckStates
  <1>2. stale \subseteq DOMAIN view[n] /\ self \subseteq {n}
    OBVIOUS
  <1> HIDE DEF stale, self
  <1>3. DOMAIN a = stale \cup self
    BY <1>1
  <1>4. ASSUME NEW m \in stale \cup self
        PROVE  a[m].gen \in Nat /\ a[m].hb \in Nat /\ ~Newer(a[m], local[m])
    <2>1. CASE m = n /\ n \in self
      <3>1. a[m] = local[m] /\ local[m].gen \in Nat /\ local[m].hb \in Nat
        BY <1>1, <2>1, LocalParts DEF TypeOK
      <3>2. QED BY <3>1, NewerOrder
    <2>2. CASE ~(m = n /\ n \in self)
      <3>1. m \in DOMAIN view[n]
        BY <1>2, <2>2
      <3>2. view[n][m].gen \in Nat /\ view[n][m].hb \in Nat /\ ~Newer(view[n][m], local[m])
        BY <3>1, ViewParts DEF GossipSound, ViewsNotAhead
      <3>3. a[m] = Digest(view[n][m])
        BY <1>1, <2>2
      <3> HIDE DEF a
      <3>4. QED BY <3>2, <3>3 DEF Digest, Newer
    <2>3. QED BY <2>1, <2>2
  <1>5. stale \cup self \subseteq Peers
    BY <1>2, ViewParts
  <1>6. transport = "addressed" => stale \cup self \subseteq {n}
    BY <1>2 DEF GossipSound, HearNobody
  <1> HIDE DEF a
  <1>7. Reached(a, n)
    BY <1>3, <1>4, <1>5, <1>6 DEF Reached
  <1>8. QED BY <1>7 DEF a

-----------------------------------------------------------------------------
(* Views.                                                                  *)

\* An entry of a view is followed by itself, by a newer one or by its death.
Advances(old, new) ==
    /\ ~Newer(old, new)
    /\ old.state = "dead" /\ new.state = "alive" => Newer(new, old)

\* A view that takes the states of a message is still one that was reached.
LEMMA UpdatedView ==
  ASSUME TypeOK, GossipSound, NEW n \in Peers, NEW states, Reached(states, n)
  PROVE  LET after == Update(view[n], states)
         IN  /\ after \in Views /\ Reached(after, n)
             /\ \A m \in DOMAIN view[n] : m \in DOMAIN after /\ Advances(view[n][m], after[m])
  <1> DEFINE after == Update(view[n], states)
  <1>0. /\ view[n] \in Views /\ DOMAIN view[n] \subseteq Peers
        /\ \A m \in DOMAIN view[n] : view[n][m].gen \in Nat /\ view[n][m].hb \in Nat
    BY ViewParts
  <1>1. DOMAIN states \subseteq Peers /\ \A m \in DOMAIN states : states[m].gen \in Nat /\ states[m].hb \in Nat
    BY DEF Reached
  <1>2. /\ after \in Views
        /\ DOMAIN after = DOMAIN view[n] \cup DOMAIN states
        /\ \A m \in DOMAIN after :
               \/ m \in DOMAIN view[n] /\ after[m] = view[n][m]
               \/ /\ m \in DOMAIN states
                  /\ after[m].gen = states[m].gen /\ after[m].hb = states[m].hb
                  /\ m \in DOMAIN view[n] => Newer(states[m], view[n][m])
    BY <1>0, <1>1, UpdateProperties
  <1> HIDE DEF after
  <1>3. ASSUME NEW m \in DOMAIN after
        PROVE  after[m].gen \in Nat /\ after[m].hb \in Nat /\ ~Newer(after[m], local[m])
    <2>1. CASE m \in DOMAIN view[n] /\ after[m] = view[n][m]
      BY <1>0, <2>1 DEF GossipSound, ViewsNotAhead
    <2>2. CASE m \in DOMAIN states /\ after[m].gen = states[m].gen /\ after[m].hb = states[m].hb
      BY <1>1, <2>2 DEF Reached, Newer
    <2>3. QED BY <1>2, <2>1, <2>2
  <1>4. Reached(after, n)
    <2>1. DOMAIN after \subseteq Peers
      BY <1>0, <1>1, <1>2
    <2>2. transport = "addressed" => DOMAIN after \subseteq {n}
      BY <1>2 DEF Reached, GossipSound, HearNobody
    <2>3. QED BY <1>3, <2>1, <2>2 DEF Reached
  <1>5. ASSUME NEW m \in DOMAIN view[n] PROVE m \in DOMAIN after /\ Advances(view[n][m], after[m])
    <2>1. m \in DOMAIN after
      BY <1>2
    <2>2. CASE after[m] = view[n][m]
      <3>1. ~Newer(view[n][m], view[n][m])
        BY <1>0, NewerOrder
      <3>2. QED BY <2>1, <2>2, <3>1 DEF Advances
    <2>3. CASE m \in DOMAIN states /\ after[m].gen = states[m].gen /\ after[m].hb = states[m].hb
               /\ Newer(states[m], view[n][m])
      <3>1. Newer(after[m], view[n][m])
        BY <2>3 DEF Newer
      <3>2. ~Newer(view[n][m], after[m])
        BY <1>0, <1>3, <2>1, <3>1, NewerOrder
      <3>3. QED BY <2>1, <3>1, <3>2 DEF Advances
    <2>4. QED BY <1>2, <2>1, <2>2, <2>3
  <1>6. QED BY <1>2, <1>4, <1>5 DEF after

\* What a step may do to the views: the view of one node becomes v, which was
\* reached.
ViewBecomes(n, v) ==
    /\ view' = [view EXCEPT ![n] = v]
    /\ v \in Views /\ Reached(v, n)

\* The views after such a step.
LEMMA ViewStep ==
  ASSUME TypeOK, GossipSound, UNCHANGED transport, LocalGrows, NEW n \in Peers, NEW v, ViewBecomes(n, v)
  PROVE  view' \in [Peers -> Views] /\ GossipSound'
  <1>1. view \in [Peers -> Views]
    BY DEF TypeOK
  <1>2. view' \in [Peers -> Views] /\ view'[n] = v /\ \A k \in Peers : k # n => view'[k] = view[k]
    BY <1>1 DEF ViewBecomes
  <1>3. \A k \in Peers : Reached(view[k], k)
    BY ViewParts DEF GossipSound, ViewsNotAhead, HearNobody, Reached
  <1>4. ASSUME NEW k \in Peers PROVE Reached(view'[k], k)
    BY <1>2, <1>3 DEF ViewBecomes
  <1>5. ASSUME NEW k \in Peers
        PROVE  /\ \A m \in DOMAIN view'[k] : ~Newer(view'[k][m], local'[m])
               /\ transport' = "addressed" => DOMAIN view'[k] \subseteq {k}
    <2>1. PICK w : w = view'[k]
      OBVIOUS
    <2>2. Reached(w, k)'
      BY <1>4, <2>1, ReachedKept
    <2>3. QED BY <2>1, <2>2 DEF Reached
  <1>6. GossipSound'
    BY <1>5 DEF GossipSound, ViewsNotAhead, HearNobody
  <1>7. QED BY <1>2, <1>6

\* The views while none of them changes.
LEMMA ViewsRest ==
  ASSUME TypeOK, GossipSound, UNCHANGED <<transport, view>>, LocalGrows
  PROVE  view' \in [Peers -> Views] /\ GossipSound'
  <1>1. ASSUME NEW k \in Peers
        PROVE  /\ \A m \in DOMAIN view'[k] : ~Newer(view'[k][m], local'[m])
               /\ transport' = "addressed" => DOMAIN view'[k] \subseteq {k}
    <2>1. PICK w : w = view[k]
      OBVIOUS
    <2>2. Reached(w, k)
      BY <2>1, ViewParts DEF GossipSound, ViewsNotAhead, HearNobody, Reached
    <2>3. Reached(w, k)'
      BY <2>2, ReachedKept
    <2>4. QED BY <2>1, <2>3 DEF Reached
  <1>2. QED BY <1>1 DEF GossipSound, ViewsNotAhead, HearNobody, TypeOK

-----------------------------------------------------------------------------
(* The steps.                                                              *)

\* What ViewsOnlyGetNewer says of a step.
ViewsAdvance ==
    \A n \in Peers : local'[n].gen = local[n].gen =>
        \A m \in DOMAIN view[n] \cap DOMAIN view'[n] : Advances(view[n][m], view'[n][m])

Good == IInv' /\ ViewsAdvance

\* An entry that stays as it is has advanced.
LEMMA Rests ==
  ASSUME TypeOK, NEW n \in Peers, NEW m \in DOMAIN view[n]
  PROVE  Advances(view[n][m], view[n][m])
  <1>1. ~Newer(view[n][m], view[n][m])
    BY ViewParts, NewerOrder
  <1>2. QED BY <1>1 DEF Advances

\* A step that leaves the views alone.
LEMMA QuietStep ==
  ASSUME IInv, UNCHANGED <<transport, view>>, LocalGrows, known' \in [Peers -> SUBSET Peers],
         \A msg \in net' : msg \in net \/ Sound(msg)
  PROVE  Good
  <1>1. TypeOK /\ GossipSound /\ InFlightSound
    BY DEF IInv
  <1>2. view' \in [Peers -> Views] /\ GossipSound' /\ InFlightSound'
    BY <1>1, ViewsRest, FlightStep
  <1>3. TypeOK'
    BY <1>1, <1>2 DEF TypeOK, LocalGrows
  <1>4. ViewsAdvance
    BY <1>1, Rests DEF ViewsAdvance
  <1>5. QED BY <1>2, <1>3, <1>4 DEF Good, IInv

\* A step that changes the view of n.
LEMMA LoudStep ==
  ASSUME IInv, UNCHANGED transport, LocalGrows, known' \in [Peers -> SUBSET Peers],
         \A msg \in net' : msg \in net \/ Sound(msg),
         NEW n \in Peers, NEW v, ViewBecomes(n, v),
         \/ local'[n].gen # local[n].gen
         \/ \A m \in DOMAIN view[n] \cap DOMAIN v : Advances(view[n][m], v[m])
  PROVE  Good
  <1>1. TypeOK /\ GossipSound /\ InFlightSound
    BY DEF IInv
  <1>2. view' \in [Peers -> Views] /\ GossipSound' /\ InFlightSound'
    BY <1>1, ViewStep, FlightStep
  <1>3. TypeOK'
    BY <1>1, <1>2 DEF TypeOK, LocalGrows
  <1>4. view'[n] = v /\ \A k \in Peers : k # n => view'[k] = view[k]
    BY <1>1 DEF ViewBecomes, TypeOK
  <1>5. ViewsAdvance
    BY <1>1, <1>4, Rests DEF ViewsAdvance
  <1>6. QED BY <1>2, <1>3, <1>5 DEF Good, IInv

\* gossipWithPeer only sends a digest.
LEMMA GossipWithPeerStep ==
  ASSUME IInv, NEW n \in Peers, NEW p \in Peers, GossipWithPeer(n, p)
  PROVE  Good
  <1> DEFINE x == Message("syn", n, p, BuildDigest(n))
  <1>1. net' \subseteq net \cup {x}
    BY SentParts DEF GossipWithPeer
  <1>2. Sound(x)
    BY MessageParts DEF Sound
  <1>3. TypeOK /\ UNCHANGED <<transport, local, view, known>>
    BY DEF GossipWithPeer, IInv
  <1> HIDE DEF x
  <1>4. QED BY <1>1, <1>2, <1>3, LocalRests, QuietStep DEF TypeOK

\* handleSyn answers with versions the node has.
LEMMA HandleSynStep ==
  ASSUME IInv, NEW msg \in net, HandleSyn(msg)
  PROVE  Good
  <1> DEFINE n == msg.to
             b == [digest |-> [m \in {n} |-> local[m]], states |-> AckStates(n, msg.body)]
             x == Message("ack", n, msg.from, b)
  <1>1. net' \subseteq (net \ {msg}) \cup {x}
    BY SentParts DEF HandleSyn
  <1>2. n \in Peers /\ msg.from \in Peers /\ (transport = "addressed" => msg.from = n)
    BY DEF IInv, InFlightSound, Sound
  <1>3. TypeOK /\ UNCHANGED <<transport, local, view, known>>
    BY DEF HandleSyn, IInv
  <1>4. Reached(b.states, n)
    BY <1>2, AckStatesReached DEF IInv
  <1>5. Reached(b.states, msg.from)
    BY <1>2, <1>4 DEF Reached
  <1> HIDE DEF b
  <1>6. Sound(x)
    BY <1>2, <1>5, MessageParts DEF Sound
  <1> HIDE DEF x
  <1>7. QED BY <1>1, <1>3, <1>6, LocalRests, QuietStep DEF TypeOK

\* handleAck takes what was reached and sends some of what it then has.
LEMMA HandleAckStep ==
  ASSUME IInv, NEW msg \in net, HandleAck(msg)
  PROVE  Good
  <1> DEFINE n == msg.to
             after == Update(view[n], msg.body.states)
             stale == {m \in DOMAIN msg.body.digest \cap DOMAIN after : Newer(after[m], msg.body.digest[m])}
             b == [m \in stale |-> Digest(after[m])]
             x == Message("ack2", n, msg.from, b)
  <1>0. net' \in Sent(net \ {msg}, x) /\ view' = [view EXCEPT ![n] = after]
    BY DEF HandleAck
  <1>1. net' \subseteq (net \ {msg}) \cup {x}
    BY <1>0, SentParts
  <1>2. /\ n \in Peers /\ msg.from \in Peers /\ (transport = "addressed" => msg.from = n)
        /\ Reached(msg.body.states, n)
    BY DEF IInv, InFlightSound, Sound, HandleAck
  <1>3. TypeOK /\ GossipSound /\ UNCHANGED <<transport, local, known>>
    BY DEF HandleAck, IInv
  <1>4. /\ after \in Views /\ Reached(after, n)
        /\ \A m \in DOMAIN view[n] : Advances(view[n][m], after[m])
    BY <1>2, <1>3, UpdatedView
  <1> HIDE DEF after
  <1>5. Reached(b, msg.from)
    <2>1. DOMAIN b = stale /\ stale \subseteq DOMAIN after
      OBVIOUS
    <2>2. \A m \in stale : b[m].gen = after[m].gen /\ b[m].hb = after[m].hb
      BY DEF Digest
    <2> HIDE DEF b, stale
    <2>3. ASSUME NEW m \in stale PROVE b[m].gen \in Nat /\ b[m].hb \in Nat /\ ~Newer(b[m], local[m])
      BY <1>4, <2>1, <2>2 DEF Reached, Newer
    <2>4. QED BY <1>2, <1>4, <2>1, <2>3 DEF Reached
  <1> HIDE DEF b
  <1>6. Sound(x)
    BY <1>2, <1>5, MessageParts DEF Sound
  <1> HIDE DEF x
  <1>7. ViewBecomes(n, after)
    BY <1>0, <1>4 DEF ViewBecomes
  <1>8. LocalGrows /\ known' \in [Peers -> SUBSET Peers]
    BY <1>3, LocalRests DEF TypeOK
  <1>9. QED BY <1>1, <1>2, <1>3, <1>4, <1>6, <1>7, <1>8, LoudStep

\* handleAck2 takes what was reached.
LEMMA HandleAck2Step ==
  ASSUME IInv, NEW msg \in net, HandleAck2(msg)
  PROVE  Good
  <1> DEFINE n == msg.to
             after == Update(view[n], msg.body)
  <1>1. n \in Peers /\ Reached(msg.body, n)
    BY DEF IInv, InFlightSound, Sound, HandleAck2
  <1>2. /\ TypeOK /\ GossipSound /\ UNCHANGED <<transport, local, known>> /\ net' = net \ {msg}
        /\ view' = [view EXCEPT ![n] = after]
    BY DEF HandleAck2, IInv
  <1>3. /\ after \in Views /\ Reached(after, n)
        /\ \A m \in DOMAIN view[n] : Advances(view[n][m], after[m])
    BY <1>1, <1>2, UpdatedView
  <1> HIDE DEF after
  <1>4. ViewBecomes(n, after)
    BY <1>2, <1>3 DEF ViewBecomes
  <1>5. LocalGrows /\ known' \in [Peers -> SUBSET Peers]
    BY <1>2, LocalRests DEF TypeOK
  <1>6. QED BY <1>1, <1>2, <1>3, <1>4, <1>5, LoudStep

\* checkDeadNodes changes the state of one entry and not its version.
LEMMA CheckDeadNodesStep ==
  ASSUME IInv, NEW n \in Peers, NEW d \in Peers, CheckDeadNodes(n, d)
  PROVE  Good
  <1> DEFINE v == [view[n] EXCEPT ![d].state = "dead"]
  <1>1. /\ TypeOK /\ GossipSound /\ UNCHANGED <<transport, local, known, net>>
        /\ d \in DOMAIN view[n] /\ view' = [view EXCEPT ![n] = v]
    BY DEF CheckDeadNodes, IInv
  <1>2. /\ view[n] \in Views /\ DOMAIN view[n] \subseteq Peers
        /\ \A m \in DOMAIN view[n] : view[n][m] \in Seen
    BY <1>1, ViewParts
  <1>3. PICK S \in SUBSET Peers : view[n] \in [S -> Seen]
    BY <1>2 DEF Views
  <1>4. /\ DOMAIN v = S /\ v = [m \in S |-> v[m]] /\ DOMAIN view[n] = S
        /\ v[d] = [view[n][d] EXCEPT !.state = "dead"]
        /\ \A m \in S : m # d => v[m] = view[n][m]
    BY <1>1, <1>3
  <1> HIDE DEF v
  <1>5. ASSUME NEW m \in S
        PROVE  /\ v[m] \in Seen /\ v[m].gen = view[n][m].gen /\ v[m].hb = view[n][m].hb
               /\ v[m].state = "dead" \/ v[m] = view[n][m]
    <2>1. CASE m = d
      BY <1>2, <1>4, <2>1 DEF Seen
    <2>2. CASE m # d
      BY <1>2, <1>4, <2>2
    <2>3. QED BY <2>1, <2>2
  <1>6. v \in Views
    BY <1>4, <1>5, IsView
  <1>7. \A m \in S : /\ v[m].gen \in Nat /\ v[m].hb \in Nat /\ ~Newer(v[m], local[m])
                     /\ Advances(view[n][m], v[m])
    <2> TAKE m \in S
    <2>1. view[n][m].gen \in Nat /\ view[n][m].hb \in Nat /\ ~Newer(view[n][m], local[m])
      BY <1>1, <1>2, <1>4 DEF GossipSound, ViewsNotAhead, Seen
    <2>2. v[m].gen \in Nat /\ v[m].hb \in Nat /\ ~Newer(v[m], local[m]) /\ ~Newer(view[n][m], v[m])
      BY <1>5, <2>1 DEF Newer
    <2>3. view[n][m].state = "dead" /\ v[m].state = "alive" => FALSE
      BY <1>5
    <2>4. QED BY <2>2, <2>3 DEF Advances
  <1>8. Reached(v, n)
    BY <1>1, <1>2, <1>4, <1>7 DEF Reached, GossipSound, HearNobody
  <1>9. ViewBecomes(n, v) /\ LocalGrows /\ known' \in [Peers -> SUBSET Peers]
    BY <1>1, <1>6, <1>8, LocalRests DEF ViewBecomes, TypeOK
  <1>10. QED BY <1>1, <1>4, <1>7, <1>9, LoudStep

\* A heartbeat makes the version of the node newer.
LEMMA IncrementHeartbeatStep ==
  ASSUME IInv, NEW n \in Peers, IncrementHeartbeat(n)
  PROVE  Good
  <1>1. TypeOK /\ UNCHANGED <<transport, view, known, net>> /\ local' = [local EXCEPT ![n].hb = @ + 1]
    BY DEF IncrementHeartbeat, IInv
  <1>2. local \in [Peers -> Version] /\ local[n].gen \in Nat /\ local[n].hb \in Nat
    BY <1>1, LocalParts DEF TypeOK
  <1>3. /\ local' \in [Peers -> Version]
        /\ local'[n].gen = local[n].gen /\ local'[n].hb = local[n].hb + 1
        /\ \A m \in Peers : m # n => local'[m] = local[m]
    BY <1>1, <1>2 DEF Version
  <1>4. ASSUME NEW m \in Peers PROVE ~Newer(local[m], local'[m])
    <2>1. CASE m = n
      BY <1>2, <1>3, <2>1 DEF Newer
    <2>2. CASE m # n
      BY <1>2, <1>3, <2>2, LocalParts, NewerOrder
    <2>3. QED BY <2>1, <2>2
  <1>5. QED BY <1>1, <1>3, <1>4, QuietStep DEF LocalGrows, TypeOK

\* A restart makes it newer too, and empties the node's view.
LEMMA RestartStep ==
  ASSUME IInv, NEW n \in Peers, Restart(n)
  PROVE  Good
  <1>1. /\ TypeOK /\ UNCHANGED transport /\ local' = [local EXCEPT ![n] = [gen |-> @.gen + 1, hb |-> 0]]
        /\ view' = [view EXCEPT ![n] = << >>] /\ known' = [known EXCEPT ![n] = Peers]
        /\ net' \subseteq net
    BY DEF Restart, IInv
  <1>2. local \in [Peers -> Version] /\ local[n].gen \in Nat /\ local[n].hb \in Nat
    BY <1>1, LocalParts DEF TypeOK
  <1>3. /\ local' \in [Peers -> Version]
        /\ local'[n].gen = local[n].gen + 1
        /\ \A m \in Peers : m # n => local'[m] = local[m]
    BY <1>1, <1>2 DEF Version
  <1>4. ASSUME NEW m \in Peers PROVE ~Newer(local[m], local'[m])
    <2>1. CASE m = n
      BY <1>2, <1>3, <2>1 DEF Newer
    <2>2. CASE m # n
      BY <1>2, <1>3, <2>2, LocalParts, NewerOrder
    <2>3. QED BY <2>1, <2>2
  <1>5. << >> \in Views /\ DOMAIN << >> = {}
    <2>1. << >> \in [{} -> Seen]
      OBVIOUS
    <2>2. QED BY <2>1 DEF Views
  <1>6. ViewBecomes(n, << >>)
    BY <1>1, <1>5 DEF ViewBecomes, Reached
  <1>7. LocalGrows /\ known' \in [Peers -> SUBSET Peers] /\ local'[n].gen # local[n].gen
    BY <1>1, <1>2, <1>3, <1>4 DEF LocalGrows, TypeOK
  <1>8. QED BY <1>1, <1>6, <1>7, LoudStep

\* AddNode only adds a peer to gossip with.
LEMMA AddKnownStep ==
  ASSUME IInv, NEW n \in Peers, NEW m \in Peers, AddKnown(n, m)
  PROVE  Good
  <1>1. TypeOK /\ UNCHANGED <<transport, local, view, net>> /\ known' \in [Peers -> SUBSET Peers]
    BY DEF AddKnown, IInv, TypeOK
  <1>2. QED BY <1>1, LocalRests, QuietStep

\* RemoveNode forgets one entry and leaves the others.
LEMMA RemoveKnownStep ==
  ASSUME IInv, NEW n \in Peers, NEW d \in Peers, RemoveKnown(n, d)
  PROVE  Good
  <1> DEFINE v == [x \in DOMAIN view[n] \ {d} |-> view[n][x]]
  <1>1. /\ TypeOK /\ GossipSound /\ UNCHANGED <<transport, local, net>> /\ known' \in [Peers -> SUBSET Peers]
        /\ view' = [view EXCEPT ![n] = v]
    BY DEF RemoveKnown, IInv, TypeOK
  <1>2. /\ DOMAIN view[n] \subseteq Peers
        /\ \A m \in DOMAIN view[n] : view[n][m] \in Seen
        /\ \A m \in DOMAIN view[n] : view[n][m].gen \in Nat /\ view[n][m].hb \in Nat
    BY <1>1, ViewParts
  <1>3. /\ DOMAIN v = DOMAIN view[n] \ {d} /\ v = [m \in DOMAIN v |-> v[m]]
        /\ \A m \in DOMAIN v : v[m] = view[n][m]
    OBVIOUS
  <1> HIDE DEF v
  <1>4. v \in Views
    BY <1>2, <1>3, IsView
  <1>5. Reached(v, n)
    BY <1>1, <1>2, <1>3 DEF Reached, GossipSound, ViewsNotAhead, HearNobody
  <1>6. \A m \in DOMAIN view[n] \cap DOMAIN v : Advances(view[n][m], v[m])
    BY <1>1, <1>3, Rests
  <1>7. ViewBecomes(n, v) /\ LocalGrows
    BY <1>1, <1>4, <1>5, LocalRests DEF ViewBecomes
  <1>8. QED BY <1>1, <1>6, <1>7, LoudStep

-----------------------------------------------------------------------------
(* The theorems.                                                           *)

\* At the start nobody has heard of anybody.
LEMMA InitInv == GossipInit => IInv
  <1> SUFFICES ASSUME GossipInit PROVE IInv
    OBVIOUS
  <1>1. << >> \in Views /\ DOMAIN << >> = {}
    <2>1. << >> \in [{} -> Seen]
      OBVIOUS
    <2>2. QED BY <2>1 DEF Views
  <1>2. TypeOK
    BY <1>1 DEF GossipInit, TypeOK, Version
  <1>3. GossipSound
    BY <1>1 DEF GossipInit, GossipSound, ViewsNotAhead, HearNobody
  <1>4. InFlightSound
    BY DEF GossipInit, InFlightSound
  <1>5. QED BY <1>2, <1>3, <1>4 DEF IInv

\* Every step keeps the invariant and takes no view back.
LEMMA StepGood == IInv /\ [GossipNext]_gossipVars => Good
  <1> SUFFICES ASSUME IInv, [GossipNext]_gossipVars PROVE Good
    OBVIOUS
  <1>1. ASSUME NEW msg \in net, Receive(msg) PROVE Good
    BY <1>1, HandleSynStep, HandleAckStep, HandleAck2Step DEF Receive
  <1>2. ASSUME NEW n \in Peers, NEW m \in Peers,
               GossipWithPeer(n, m) \/ CheckDeadNodes(n, m) \/ AddKnown(n, m) \/ RemoveKnown(n, m)
        PROVE  Good
    BY <1>2, GossipWithPeerStep, CheckDeadNodesStep, AddKnownStep, RemoveKnownStep
  <1>3. ASSUME NEW n \in Movers, IncrementHeartbeat(n) \/ Restart(n) PROVE Good
    BY <1>3, GossipAssumption, IncrementHeartbeatStep, RestartStep
  <1>4. CASE UNCHANGED gossipVars
    <2>1. TypeOK /\ UNCHANGED <<transport, local, view, known, net>>
      BY <1>4 DEF gossipVars, IInv
    <2>2. known' \in [Peers -> SUBSET Peers]
      BY <2>1 DEF TypeOK
    <2>3. QED BY <2>1, <2>2, LocalRests, QuietStep
  <1>5. QED BY <1>1, <1>2, <1>3, <1>4 DEF GossipNext

\* The invariant holds in every reachable state.
LEMMA Invariance == GossipSpec => []IInv
  <1>1. IInv /\ [GossipNext]_gossipVars => IInv'
    BY StepGood DEF Good
  <1>2. QED BY <1>1, InitInv, PTL DEF GossipSpec

\* No node believes in a version that the other has not reached, whatever was
\* lost, overtaken or sent before a restart.
THEOREM BeliefsAreReached == GossipSpec => []ViewsNotAhead
  <1>1. IInv => ViewsNotAhead
    BY DEF IInv, GossipSound
  <1>2. QED BY <1>1, Invariance, PTL

\* A transport that names the addressee as the sender, as TCPTransport does,
\* leaves every node alone: Discovery fails for every number of nodes.
THEOREM AddressedDiscoversNobody == GossipSpec => []HearNobody
  <1>1. IInv => HearNobody
    BY DEF IInv, GossipSound
  <1>2. QED BY <1>1, Invariance, PTL

\* updateEndpointState never takes a view back to an older version, and a node
\* found dead comes alive only with a newer one.
THEOREM ViewsAreMonotonic == GossipSpec => ViewsOnlyGetNewer
  <1> DEFINE A == \A n \in Peers : local'[n].gen = local[n].gen =>
                    \A m \in DOMAIN view[n] \cap DOMAIN view'[n] :
                        /\ ~Newer(view[n][m], view'[n][m])
                        /\ view[n][m].state = "dead" /\ view'[n][m].state = "alive"
                              => Newer(view'[n][m], view[n][m])
  <1>1. IInv /\ [GossipNext]_gossipVars => [A]_gossipVars
    BY StepGood DEF Good, ViewsAdvance, Advances
  <1>2. ViewsOnlyGetNewer <=> [][A]_gossipVars
    BY DEF ViewsOnlyGetNewer
  <1>3. QED BY <1>1, <1>2, Invariance, PTL DEF GossipSpec
=============================================================================
