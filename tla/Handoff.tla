------------------------------ MODULE Handoff ------------------------------
(***************************************************************************)
(* Hinted handoff: the hint store (core/cluster/handoff/store.go) with the *)
(* file hints.db that goroutines rewrite in the background, and the        *)
(* dispatcher (dispatcher.go), which replays hints through the same        *)
(* Coordinator.Write that requests use.                                    *)
(*                                                                         *)
(* A flush holds the read lock of the store from the truncation of the     *)
(* file to its end, so that the hints do not change meanwhile, but several *)
(* flushes hold it together. Each keeps its own offset in the file. Hints  *)
(* are taken to be of the same length: the file is a sequence of slots,    *)
(* and a write behind the end leaves holes.                                *)
(***************************************************************************)
EXTENDS Coordinator

CONSTANTS
    Hole,         \* a slot of zero bytes
    Loops,        \* the replayers that are loops of the dispatcher
    Loop,         \* the first of them; a Start after a Stop that timed out begins another
    MaxHints,     \* Config.MaxSize, in hints
    Checks,       \* rounds of replayLoop until its deadline: 1 with ReplayInterval 5s
    Flushers,     \* flushes that may be open at once
    MaxPending,   \* bound: flushes spawned and not started
    MaxStored     \* bound: hints stored over a behaviour

Hint == [key : Keys, val : Values, at : Nat]
Slot == [node : Nodes, hint : Hint]

ASSUME HandoffAssumption ==
    /\ IsFiniteSet(Nodes)
    /\ Loop \in Loops /\ Loops \subseteq Replayers
    /\ Hole \notin Slot
    /\ {MaxHints, Checks, MaxPending, MaxStored} \subseteq Nat

VARIABLES
    hints,      \* hints[n]: Store.hints of node n, oldest first
    total,      \* Store.totalSize
    file,       \* the slots of hints.db
    flush,      \* flush[f]: the hints flush f writes, and how many it has written
    pending,    \* flushes spawned with go s.flush() and not started
    sound,      \* the last flush that ended had the file to itself and no error
    clock,      \* timestamps: the number of hints stored so far
    expired,    \* hints stored up to then are older than Config.MaxTTL
    running,    \* Dispatcher.running
    closed,     \* stopCh is closed
    replaying,  \* Dispatcher.replaying
    replay      \* replay[r]: where replayer r is

storeVars == << hints, total, file, flush, pending, sound, clock, expired >>
dispVars == << running, closed, replaying, replay >>
handoffVars == << storeVars, dispVars >>

NoFlush == [open |-> FALSE, out |-> << >>, pos |-> 0, alone |-> FALSE]
NoReplay == [pc |-> "idle", node |-> Local, nodes |-> {}, left |-> << >>, checks |-> 0]

Locked == \E f \in Flushers : flush[f].open      \* a flush holds mu.RLock

\* The hints of all nodes in the order a range over the map yields the nodes.
Orders == {o \in [1 .. Cardinality(Nodes) -> Nodes] : SeqToSet(o) = Nodes}
FlattenUpTo(ss) ==
    LET F[i \in 0 .. Len(ss)] == IF i = 0 THEN << >> ELSE F[i - 1] \o ss[i] IN F
Flatten(ss) == FlattenUpTo(ss)[Len(ss)]
Tagged(n) == [i \in DOMAIN hints[n] |-> [node |-> n, hint |-> hints[n][i]]]
Contents(order) == Flatten([i \in DOMAIN order |-> Tagged(order[i])])

\* The number of hints, of all nodes together.
Places(h) == UNION {{n} \X DOMAIN h[n] : n \in Nodes}
HintCount(h) == Cardinality(Places(h))

HandoffTypeOK ==
    /\ WriteTypeOK
    /\ hints \in [Nodes -> Seq(Hint)]
    /\ total \in Nat /\ pending \in 0 .. MaxPending
    /\ clock \in 0 .. MaxStored /\ expired \in 0 .. clock
    /\ {running, closed, sound} \subseteq BOOLEAN
    /\ replaying \subseteq Nodes
    /\ \A f \in Flushers : flush[f].pos \in 0 .. Len(flush[f].out)
    /\ \A r \in Replayers :
          replay[r].pc \in {"idle", "check", "nodes", "mark", "hints", "write", "remove",
                            "unmark", "wait", "ended"}

HandoffInit ==
    /\ CoordInit
    /\ hints = [n \in Nodes |-> << >>]
    /\ total = 0 /\ file = << >> /\ pending = 0 /\ sound = TRUE /\ clock = 0 /\ expired = 0
    /\ flush = [f \in Flushers |-> NoFlush]
    /\ running = TRUE /\ closed = FALSE /\ replaying = {}
    /\ replay = [r \in Replayers |-> IF r = Loop THEN [NoReplay EXCEPT !.pc = "check"] ELSE NoReplay]

-----------------------------------------------------------------------------
(* The store.                                                              *)

\* go s.flush(): a goroutine that waits for the read lock.
SpawnFlush == pending < MaxPending /\ pending' = pending + 1

\* StoreHint for the next replica that was not alive: dropped when the store
\* is full, otherwise appended. The handler goes on in both cases.
StoreHint(c) ==
    /\ call[c].pc = "hint" /\ call[c].todo # << >>
    /\ ~Locked
    /\ call' = [call EXCEPT ![c].todo = Tail(@)]
    /\ LET n == Head(call[c].todo)
           h == [key |-> call[c].key, val |-> call[c].val, at |-> clock + 1]
       IN IF total + 1 > MaxHints
          THEN UNCHANGED << hints, total, pending, clock >>
          ELSE /\ clock < MaxStored
               /\ clock' = clock + 1
               /\ hints' = [hints EXCEPT ![n] = Append(@, h)]
               /\ total' = total + 1
               /\ SpawnFlush
    /\ UNCHANGED << cfg, alive, data, written, budget, file, flush, sound, expired, dispVars >>

\* cleanup: every hint older than the TTL goes. Time is what has been stored
\* up to then: the oldest hints expire first.
Cleanup ==
    /\ ~Locked
    /\ Spend("expiries")
    /\ \E t \in expired .. clock :
          LET kept == [n \in Nodes |-> Filter(hints[n], {h \in SeqToSet(hints[n]) : h.at > t})]
          IN /\ kept # hints
             /\ hints' = kept
             /\ total' = total - (HintCount(hints) - HintCount(kept))
             /\ expired' = t
             /\ SpawnFlush
    /\ UNCHANGED << file, flush, sound, clock, cfg, alive, data, call, written, dispVars >>

\* Mutant: the file is opened without O_TRUNC.
OpensUntruncated(f) ==
    /\ pending > 0 /\ ~flush[f].open
    /\ \E o \in Orders :
          flush' = [g \in Flushers |->
              IF g = f THEN [open |-> TRUE, out |-> Contents(o), pos |-> 0, alone |-> ~Locked]
              ELSE [flush[g] EXCEPT !.alone = FALSE]]
    /\ pending' = pending - 1
    /\ UNCHANGED << file, hints, total, sound, clock, expired, coordVars, dispVars >>

\* A flush takes the read lock, picks the order of the map, truncates.
FlushOpen(f) ==
    /\ pending > 0 /\ ~flush[f].open
    /\ \E o \in Orders :
          flush' = [g \in Flushers |->
              IF g = f THEN [open |-> TRUE, out |-> Contents(o), pos |-> 0, alone |-> ~Locked]
              ELSE [flush[g] EXCEPT !.alone = FALSE]]
    /\ pending' = pending - 1
    /\ file' = << >>
    /\ UNCHANGED << hints, total, sound, clock, expired, coordVars, dispVars >>

\* One hint is encoded and written at the offset of this file handle.
FlushWrite(f) ==
    /\ flush[f].open /\ flush[f].pos < Len(flush[f].out)
    /\ LET p == flush[f].pos + 1
           size == IF p > Len(file) THEN p ELSE Len(file)
       IN /\ file' = [i \in 1 .. size |-> CASE i = p -> flush[f].out[p]
                                            [] i # p /\ i <= Len(file) -> file[i]
                                            [] OTHER -> Hole]
          /\ flush' = [flush EXCEPT ![f].pos = p]
    /\ UNCHANGED << hints, total, pending, sound, clock, expired, coordVars, dispVars >>

\* Synced and closed.
FlushSync(f) ==
    /\ flush[f].open /\ flush[f].pos = Len(flush[f].out)
    /\ flush' = [flush EXCEPT ![f] = NoFlush]
    /\ sound' = flush[f].alone
    /\ UNCHANGED << hints, total, file, pending, clock, expired, coordVars, dispVars >>

\* An error ends a flush with what it has written.
FlushFail(f) ==
    /\ flush[f].open
    /\ Spend("failures")
    /\ flush' = [flush EXCEPT ![f] = NoFlush]
    /\ sound' = FALSE
    /\ UNCHANGED << hints, total, file, pending, clock, expired, cfg, alive, data, call, written, dispVars >>

\* load: lines that do not parse are skipped, and a hole spoils the line it
\* runs into; so are hints older than the TTL, those up to t; the others are
\* appended to the hints of their node.
LinesOf(fl, n, t) ==
    {i \in 1 .. Len(fl) : /\ fl[i] # Hole
                          /\ i > 1 => fl[i - 1] # Hole
                          /\ fl[i].node = n /\ fl[i].hint.at > t}
Loaded(fl, t) ==
    [n \in Nodes |->
        LET mine == Filter([i \in 1 .. Len(fl) |-> i], LinesOf(fl, n, t))
        IN [j \in DOMAIN mine |-> fl[mine[j]].hint]]

\* The process dies and starts again: requests, flushes and replays are gone,
\* the hints are those of the file that are not too old by then.
Restart ==
    /\ Spend("crashes")
    /\ cfg' = DefaultConfig
    /\ call' = [c \in Callers |-> Idle]
    /\ \E t \in expired .. clock :
          /\ hints' = Loaded(file, t)
          /\ total' = HintCount(Loaded(file, t))
          /\ expired' = t
    /\ flush' = [f \in Flushers |-> NoFlush]
    /\ pending' = 0 /\ sound' = TRUE
    /\ running' = TRUE /\ closed' = FALSE /\ replaying' = {}
    /\ replay' = [r \in Replayers |-> IF r = Loop THEN [NoReplay EXCEPT !.pc = "check"] ELSE NoReplay]
    /\ UNCHANGED << alive, data, written, file, clock >>

-----------------------------------------------------------------------------
(* The dispatcher.                                                         *)

Goto(r, pc) == replay' = [replay EXCEPT ![r].pc = pc]

\* checkAndReplay: the nodes that have hints, are alive and not replayed now.
CheckAndReplay(l) ==
    /\ replay[l].pc = "check"
    /\ replay' = [replay EXCEPT ![l].pc = "nodes",
          ![l].nodes = {n \in alive \ replaying : hints[n] # << >>}]
    /\ UNCHANGED << coordVars, storeVars, running, closed, replaying >>

\* The next of them, unless the dispatcher is stopped.
NextNode(l) ==
    /\ replay[l].pc = "nodes"
    /\ IF replay[l].nodes = {} \/ closed
       THEN Goto(l, "wait")
       ELSE \E n \in replay[l].nodes :
              replay' = [replay EXCEPT ![l].pc = "mark", ![l].node = n,
                                       ![l].nodes = @ \ {n}]
    /\ UNCHANGED << coordVars, storeVars, running, closed, replaying >>

\* replayLoop sleeps; the signal to stop or its deadline end it.
LoopWakes(l) ==
    /\ replay[l].pc = "wait"
    /\ LET checks == replay[l].checks + 1 IN
       replay' = [replay EXCEPT ![l] =
           IF closed \/ checks >= Checks THEN [NoReplay EXCEPT !.pc = "ended"]
           ELSE [NoReplay EXCEPT !.pc = "check", !.checks = checks]]
    /\ UNCHANGED << coordVars, storeVars, running, closed, replaying >>

\* TriggerReplay: a goroutine of its own, which Stop does not wait for.
TriggerReplay(r, n) ==
    /\ r \notin Loops /\ replay[r].pc = "idle"
    /\ running
    /\ Spend("triggers")
    /\ replay' = [replay EXCEPT ![r] = [NoReplay EXCEPT !.pc = "mark", !.node = n]]
    /\ UNCHANGED << cfg, alive, data, call, written, storeVars, running, closed, replaying >>

\* Where replayHintsForNode returns to.
After(r) == IF r \in Loops THEN "nodes" ELSE "idle"

\* replayHintsForNode: one replay of a node at a time.
MarkReplaying(r) ==
    /\ replay[r].pc = "mark"
    /\ IF replay[r].node \in replaying
       THEN Goto(r, After(r)) /\ UNCHANGED replaying
       ELSE Goto(r, "hints") /\ replaying' = replaying \cup {replay[r].node}
    /\ UNCHANGED << coordVars, storeVars, running, closed >>

\* GetHintsForNode: a copy of the hints of this moment.
CopyHints(r) ==
    /\ replay[r].pc = "hints"
    /\ replay' = [replay EXCEPT ![r].left = hints[replay[r].node],
          ![r].pc = IF hints[replay[r].node] = << >> THEN "unmark" ELSE "write"]
    /\ UNCHANGED << coordVars, storeVars, running, closed, replaying >>

\* replayBatch takes the next hint of the copy to Coordinator.Write...
ReplayHint(r) ==
    /\ replay[r].pc = "write" /\ ~closed
    /\ LET h == Head(replay[r].left) IN
       call' = [call EXCEPT ![r] = [Idle EXCEPT !.pc = "select", !.key = h.key, !.val = h.val]]
    /\ Goto(r, "remove")
    /\ UNCHANGED << cfg, alive, data, written, budget, storeVars, running, closed, replaying >>

\* ...or gives up, stopped or out of time.
ReplayStops(r) ==
    /\ replay[r].pc = "write"
    /\ Goto(r, "unmark")
    /\ UNCHANGED << coordVars, storeVars, running, closed, replaying >>

\* A failed write is left for later; after a successful one RemoveHint drops
\* every hint of the node for this key.
ReplayReturns(r) ==
    /\ replay[r].pc = "remove" /\ call[r].pc = "done"
    /\ call' = [call EXCEPT ![r] = Idle]
    /\ replay' = [replay EXCEPT ![r].left = Tail(@),
          ![r].pc = IF Len(replay[r].left) = 1 THEN "unmark" ELSE "write"]
    /\ LET n == replay[r].node
           kept == Filter(hints[n], {h \in SeqToSet(hints[n]) : h.key # call[r].key})
       IN IF ~call[r].res \/ hints[n] = << >>
          THEN UNCHANGED << hints, total, pending >>
          ELSE /\ ~Locked
               /\ hints' = [hints EXCEPT ![n] = kept]
               /\ total' = total - (Len(hints[n]) - Len(kept))
               /\ SpawnFlush
    /\ UNCHANGED << cfg, alive, data, written, budget, file, flush, sound, clock, expired, running, closed, replaying >>

\* Mutant: the node stays marked.
StaysMarked(r) ==
    /\ replay[r].pc = "unmark"
    /\ Goto(r, After(r))
    /\ UNCHANGED << coordVars, storeVars, running, closed, replaying >>

Unmark(r) ==
    /\ replay[r].pc = "unmark"
    /\ replaying' = replaying \ {replay[r].node}
    /\ Goto(r, After(r))
    /\ UNCHANGED << coordVars, storeVars, running, closed >>

\* Stop closes stopCh, waits for the loop, but not longer than five seconds,
\* and then makes a new channel, which goroutines still at work will test.
Stop ==
    /\ running
    /\ Spend("stops")
    /\ running' = FALSE /\ closed' = TRUE
    /\ UNCHANGED << cfg, alive, data, call, written, storeVars, replaying, replay >>

StopReturns ==
    /\ closed
    /\ closed' = FALSE
    /\ UNCHANGED << coordVars, storeVars, running, replaying, replay >>

\* Start after a Stop that has returned: a new loop, next to an old one that Stop
\* has not waited for.
Start(l) ==
    /\ ~running /\ ~closed /\ replay[l].pc \in {"idle", "ended"}
    /\ running' = TRUE
    /\ Goto(l, "check")
    /\ UNCHANGED << coordVars, storeVars, closed, replaying >>

ReplayStep(r) ==
    \/ MarkReplaying(r)
    \/ CopyHints(r)
    \/ ReplayHint(r)
    \/ ReplayStops(r)
    \/ ReplayReturns(r)
    \/ Unmark(r)

FlushStep(f) ==
    \/ FlushOpen(f)
    \/ FlushWrite(f)
    \/ FlushSync(f)

LoopStep(l) == CheckAndReplay(l) \/ NextNode(l) \/ LoopWakes(l)
=============================================================================
