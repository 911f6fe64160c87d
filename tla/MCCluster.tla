----------------------------- MODULE MCCluster -----------------------------
(***************************************************************************)
(* The cluster with a few nodes that all own every key, for TLC.           *)
(***************************************************************************)
EXTENDS ReadRepair, TLC

AllOwn == LET order == CHOOSE o \in Orders : TRUE IN [k \in Keys |-> order]

\* How often each fault or call may happen: a behaviour has one of the budgets.
Kinds == {"puts", "flaps", "faults", "failures", "triggers", "stops", "crashes",
          "expiries", "reads", "schedStops", "stats", "special"}
Budget(b) == [f \in Kinds |-> IF f \in DOMAIN b THEN b[f] ELSE IF f = "puts" THEN 1 ELSE 0]

\* Hints that are stored, flushed, expired, lost in a crash; replays of the
\* loop, triggered, stopped, failing; reads and repairs with faults and stops;
\* requests that overlap, batches and levels.
SomeBudgets ==
    {Budget([flaps |-> 1, crashes |-> 1, failures |-> 1, expiries |-> 1]),
     Budget([flaps |-> 2]),
     Budget([puts |-> 0, flaps |-> 2, triggers |-> 1]),
     Budget([flaps |-> 1, stops |-> 1]),
     Budget([flaps |-> 1, faults |-> 1]),
     Budget([reads |-> 2]),
     Budget([special |-> 2]),
     Budget([special |-> 1, faults |-> 1]),
     Budget([reads |-> 1, faults |-> 1]),
     Budget([reads |-> 1, schedStops |-> 1, stats |-> 1])}

\* Requests and values are told apart, nothing else.
Symmetry ==
    {[x \in Clients \cup Values |-> IF x \in Clients THEN p[x] ELSE q[x]]
        : p \in Permutations(Clients), q \in Permutations(Values)}

LiveBudgets ==
    {Budget([flaps |-> 1, triggers |-> 1]),
     Budget([reads |-> 1, faults |-> 1]),
     Budget([schedStops |-> 1, stats |-> 1])}

\* Two writes of a key, the second with two failures, and a read of three
\* replicas of five.
FiveSymmetry == Permutations(Nodes \ {Local})
\* Only behaviours in which the loop of the dispatcher has ended before the first
\* write, replicas fail only in the second one, and nodes die after it.
FiveConstraint ==
    /\ written # {} => replay[Loop].pc = "ended"
    /\ written # Values => budget["faults"] = 2
    /\ alive # Nodes \/ budget["reads"] = 0 =>
          written = Values /\ budget["faults"] = 0 /\ \A k \in Keys : acked[k] # NoValue
FiveBudgets == {Budget([faults |-> 2, flaps |-> 2, reads |-> 1])}

\* One fault or call more than the other runs have, for what a doc says.
OverlapBudgets == {Budget([special |-> 2])}
StaleBudgets == {Budget([faults |-> 2, reads |-> 1])}
ReturnBudgets == {Budget([puts |-> 0, flaps |-> 2])}
=============================================================================
