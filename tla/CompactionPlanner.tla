------------------------- MODULE CompactionPlanner -------------------------
(***************************************************************************)
(* The size-tiered planner of core/storage/compaction/planner.go, as       *)
(* functions of the metadata of the SSTables: which files are compacted    *)
(* together, and in which order the executor will read them.               *)
(***************************************************************************)
EXTENDS Naturals, Sequences, FiniteSets, SequencesExt

CONSTANT MinSize   \* minSize of the planner (1 MB)

\* ListSSTables returns records with name, size, mtime and old, which stands for
\* Age >= maxAge.  Smallest first, then oldest first.
Before(a, b) == a.size < b.size \/ (a.size = b.size /\ a.mtime < b.mtime)

\* sort.Slice is not stable: files of one size and age come in any order.
SortedLists(infos) ==
    {list \in [1 .. Cardinality(infos) -> infos] :
        \A i, j \in DOMAIN list : i < j => list[i] # list[j] /\ ~Before(list[j], list[i])}

TotalSize(tier) == FoldLeft(LAMBDA total, info : total + info.size, 0, tier)

\* The test that starts a new tier; avgSize is an integer division.
StartsTier(tier, info) == info.size > (TotalSize(tier) \div Len(tier)) * 2

\* Mutant: a file that starts a new tier is not put into it.
DropsStarter(tiers, info) ==
    IF info.size < MinSize THEN tiers
    ELSE IF tiers = << >> THEN << <<info>> >>
    ELSE IF StartsTier(Last(tiers), info) THEN tiers
    ELSE Append(Front(tiers), Append(Last(tiers), info))

\* The next file is too small, starts the first tier or a new one, or joins the last.
AddToTiers(tiers, info) ==
    IF info.size < MinSize THEN tiers
    ELSE IF tiers = << >> \/ StartsTier(Last(tiers), info) THEN Append(tiers, <<info>>)
    ELSE Append(Front(tiers), Append(Last(tiers), info))

GroupBySizeTier(infos) ==
    LET tiers[k \in 0 .. Len(infos)] ==
            IF k = 0 THEN << >> ELSE AddToTiers(tiers[k - 1], infos[k])
    IN  tiers[Len(infos)]

\* The elements of s at the positions K, in their order.
Keep(s, K) ==
    LET kept[k \in 0 .. Len(s)] ==
            IF k = 0 THEN << >>
            ELSE IF k \in K THEN Append(kept[k - 1], s[k]) ELSE kept[k - 1]
    IN  kept[Len(s)]

LargeEnough(infos) == {k \in DOMAIN infos : infos[k].size >= MinSize}
OldFiles(infos) == Keep(infos, {k \in LargeEnough(infos) : infos[k].old})

\* Four files are always enough; fewer only if two of them are old.
TierPlan(tier) ==
    IF Len(tier) >= 4 THEN tier
    ELSE IF Len(OldFiles(tier)) >= 2 THEN OldFiles(tier) ELSE << >>

PlanCompaction(infos) ==
    LET tiers == GroupBySizeTier(infos)
        plans == [i \in DOMAIN tiers |-> TierPlan(tiers[i])]
    IN  IF Len(infos) < 2 THEN << >> ELSE Keep(plans, {i \in DOMAIN plans : plans[i] # << >>})

ShouldCompact(infos) ==
    LET tiers == GroupBySizeTier(infos)
    IN  /\ Len(infos) >= 2
        /\ (\E i \in DOMAIN tiers : Len(tiers[i]) >= 4) \/ Len(OldFiles(infos)) >= 2

-----------------------------------------------------------------------------
(* Properties of a list of infos, to be checked for every small list.      *)

\* The tiers, one after the other, are exactly the files that are large enough,
\* in the order of the list: no file is lost and none is in two tiers, so two
\* jobs of one plan never share a file.
TiersPartition(infos) ==
    FlattenSeq(GroupBySizeTier(infos)) = Keep(infos, LargeEnough(infos))

\* Every job of a plan merges at least two files, and files of one tier only.
PlanMergesSeveral(infos) ==
    \A i \in DOMAIN PlanCompaction(infos) : Len(PlanCompaction(infos)[i]) >= 2

\* The cheap test that checkAndSchedule makes first never hides a plan.
PlanImpliesShould(infos) == PlanCompaction(infos) # << >> => ShouldCompact(infos)
=============================================================================
