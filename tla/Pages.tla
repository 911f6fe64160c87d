-------------------------------- MODULE Pages --------------------------------
(***************************************************************************)
(* RangeScan of the gRPC server (api/grpc/server.go) in pages: the client  *)
(* goes on with the token, an offset into the sorted keys of the range,    *)
(* until there is none. The keys are listed anew for each page, and others *)
(* may be stored in between. Keys are numbers for the order of strings.    *)
(***************************************************************************)
EXTENDS Naturals, Sequences, FiniteSets, SequencesExt, Ranks

CONSTANTS ScanKeys, Limits

ASSUME PagesAssumption ==
    /\ ScanKeys \subseteq Nat /\ IsFiniteSet(ScanKeys)
    /\ Limits \subseteq Nat \ {0}     \* another limit is replaced by 100

VARIABLES
    stored,   \* the keys in the range
    scan      \* the scan: its limit, token, what it has returned, the keys at its start

scanVars == << stored, scan >>

ScanInit ==
    /\ stored \in SUBSET ScanKeys
    /\ \E l \in Limits : scan = [limit |-> l, token |-> 0, got |-> << >>, had |-> stored, more |-> TRUE]

\* sort.Strings
InOrder(S) == [k \in 1 .. Cardinality(S) |-> Nth(S, k)]

\* Mutant: the token is one too high.
SkipsOne ==
    /\ scan.more
    /\ LET keys == InOrder(stored)
           from == Min({scan.token, Len(keys)})
           end == Min({from + scan.limit, Len(keys)})
       IN scan' = [scan EXCEPT !.got = @ \o SubSeq(keys, from + 1, end),
                               !.token = end + 1, !.more = end < Len(keys)]
    /\ UNCHANGED stored

\* A page: keys offset .. offset + limit of the sorted ones.
RangeScan ==
    /\ scan.more
    /\ LET keys == InOrder(stored)
           from == Min({scan.token, Len(keys)})
           end == Min({from + scan.limit, Len(keys)})
       IN scan' = [scan EXCEPT !.got = @ \o SubSeq(keys, from + 1, end),
                               !.token = end, !.more = end < Len(keys)]
    /\ UNCHANGED stored

StoreKey(k) ==
    /\ scan.more /\ k \notin stored
    /\ stored' = stored \cup {k}
    /\ UNCHANGED scan

ScanNext == RangeScan \/ \E k \in ScanKeys : StoreKey(k)
ScanSpec == ScanInit /\ [][ScanNext]_scanVars

-----------------------------------------------------------------------------
(* Properties.                                                             *)

\* Keys that were there when a scan began are all among its pages, in spite of
\* writes between two pages, which shift the offsets.
ScanReturnsAll == ~scan.more => scan.had \subseteq ToSet(scan.got)

\* Without writes in between the pages are the keys in order, each once.
QuietScanIsSorted == ~scan.more /\ stored = scan.had => scan.got = InOrder(stored)

\* server.go, RangeScan: pages leave nothing out, and repeat nothing unless a key
\* was stored meanwhile.
ScanSound == ScanReturnsAll /\ QuietScanIsSorted
=============================================================================
