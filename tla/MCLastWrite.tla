---------------------------- MODULE MCLastWrite ----------------------------
(***************************************************************************)
(* The cluster with one client, which sends one request after the other,   *)
(* and the value of the last write of each key that was acknowledged, for  *)
(* TLC. Unlike acked, it does not ask whether hints of the key are left.   *)
(***************************************************************************)
EXTENDS MCCluster

VARIABLE last   \* history: last[k], from its acknowledgement to the next request

HintBudgets == {Budget([flaps |-> 2])}

LastInit == Init /\ last = [k \in Keys |-> NoValue]

Begins(c, k) == call[c].pc = "idle" /\ call'[c].pc = "save" /\ call'[c].key = k
Acks(c, k) == call[c].pc = "done" /\ call'[c] = Idle /\ call[c].res /\ call[c].key = k

LastNext ==
    /\ Next
    /\ last' = [k \in Keys |->
          IF \E c \in Clients : Begins(c, k) THEN NoValue
          ELSE IF \E c \in Clients : Acks(c, k) THEN call[CHOOSE c \in Clients : Acks(c, k)].val
          ELSE last[k]]

LastSpec == LastInit /\ [][LastNext]_<<vars, last>>

-----------------------------------------------------------------------------
\* Replays of hints are writes with "last-write-wins" semantics: the last
\* acknowledged write of a key stays on a quorum of its replicas, also when a
\* hint of an earlier write is replayed after it.
LastWriteWins ==
    \A k \in Keys : last[k] # NoValue =>
        Cardinality({n \in SeqToSet(SelectReplicas(k)) : data[n][k] = last[k]}) >= Quorum
=============================================================================
