-------------------------- MODULE MCStorageService --------------------------
(* Instances of StorageService for TLC. *)
EXTENDS StorageService, FiniteSets, TLC

CONSTANTS w1, w2, r1, t1, t2

\* Entity 1 has an id such as "user-1", whose bytes read as a time far in the
\* future; entity 2 a short one such as "e2", whose bytes read as a small number.
MCPseudoTS == [p \in Ids \X Tenants |-> IF p[1] = 1 THEN MaxRows + 1 ELSE 1]

MCScanRanges == {<<0, 0>>, <<1, 2>>}

\* A third row, a crash and two writers at once come without readers and without
\* a second tenant, and a crash with two rows. Only calls and crashes are cut
\* off, which no fairness drives.
Scenarios ==
    LET reading == \E r \in Readers : look[r] # Idle
        busy == {w \in Writers : pc[w] # "idle"}
        foreign == \E r \in Rows(mem.data) \cup Rows(wal.data) \cup {row[w] : w \in busy} :
                      r # None /\ r.tenant = t2
    IN  /\ reading \/ foreign => clock <= 2 /\ crashes = 0 /\ Cardinality(busy) <= 1
        /\ crashes > 0 => clock <= 2
=============================================================================
