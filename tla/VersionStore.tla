---------------------------- MODULE VersionStore ----------------------------
(***************************************************************************)
(* What the SSTables of a node promise, without files, jobs or readers:    *)
(* versions have a rank, and for every entity there is a best rank among   *)
(* the versions that can be found, 0 if there are none.  A version that is *)
(* stored and better counts from then on; only a power failure takes it    *)
(* away.                                                                   *)
(***************************************************************************)
EXTENDS Naturals, FiniteSetsExt

CONSTANTS
    Ids,
    Rank      \* Rank[v] > 0: what makes version v better than another

VARIABLES
    stored,   \* stored[id]: the versions of the entity that were ever stored
    best,     \* best[id]: the best rank among the versions that can be found
    losses    \* how often the power failed

Init ==
    /\ stored = [id \in Ids |-> {}]
    /\ best = [id \in Ids |-> 0]
    /\ losses = 0

\* New versions are stored, of any number of entities.
Store ==
    /\ stored' # stored /\ \A id \in Ids : stored[id] \subseteq stored'[id]
    /\ best' = [id \in Ids |-> Max({best[id]} \cup {Rank[v] : v \in stored'[id] \ stored[id]})]
    /\ UNCHANGED losses

PowerLoss ==
    /\ losses' = losses + 1
    /\ \A id \in Ids : best'[id] <= best[id]
    /\ UNCHANGED stored

Spec == Init /\ [][Store \/ PowerLoss]_<<stored, best, losses>>
=============================================================================
