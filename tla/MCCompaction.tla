---------------------------- MODULE MCCompaction ----------------------------
(* Values for TLC: rows that grow with every version, or rows of which a   *)
(* newer one may be shorter.                                               *)
EXTENDS Compaction, TLC

CONSTANTS w1, w2, r1, c1

Growing == [v \in 1..MaxVersions |-> 3 + v]
Uneven == [v \in 1..MaxVersions |-> IF v = 2 THEN 3 ELSE 4]

Symmetry == Permutations({w1, w2})

\* A read and a power loss exclude each other; a third version excludes both,
\* and a kill when there were two jobs.
Scenarios ==
    LET reading == \E r \in Readers : reader[r] # IdleReader
    IN  /\ losses = 0 \/ ~reading
        /\ versions <= 2 \/ (losses = 0 /\ ~reading /\ (crashes = 0 \/ scheduled <= 1))

\* Calls of TriggerCompaction, GetStats and Stop come with one job. Only calls and
\* plans are cut off, which no fairness drives.
OneJobWithCalls ==
    stops > 0 \/ queueMu # None \/ (\E c \in Callers : planner[c] # IdlePlanner) => scheduled <= 1
=============================================================================
