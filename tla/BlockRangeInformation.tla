----------------------- MODULE BlockRangeInformation ------------------------
(***************************************************************************)
(* BlockRangeInformation (src/umbra/backend/block_range_information.cpp):  *)
(* an interval map from guest addresses to the locations that cover them, *)
(* the ranges of each location for taking it out again, and a running      *)
(* count of those ranges.                                                  *)
(*                                                                         *)
(* Boost's interval containers are external.  An interval set is the set   *)
(* of its addresses and an interval map a function on addresses; their     *)
(* nodes are the runs of equal content, because both containers join       *)
(* neighbours.                                                             *)
(***************************************************************************)
EXTENDS Integers, FiniteSets, FiniteSetsExt, Functions

CONSTANTS
    Location,
    MaxPc,          \* the largest program counter; arithmetic wraps after it
    MaxBlockBytes   \* bound: the length of a block

ASSUME RangeAssumption ==
    /\ MaxPc \in Nat
    /\ MaxBlockBytes \in Nat

VARIABLES
    block_ranges,           \* by address: the locations that cover it
    ranges_by_descriptor,   \* by location present: the addresses it covers
    range_count

vars == <<block_ranges, ranges_by_descriptor, range_count>>

Pc == 0 .. MaxPc

\* discrete_interval::closed: empty when the bounds are the wrong way round
Closed(first, last) == {pc \in Pc : first <= pc /\ pc <= last}

\* The nodes of a container with content f: maximal runs of addresses with the
\* same content other than nothing.
Nodes(f, nothing) ==
    {n \in {<<i, j>> : i, j \in Pc} :
        /\ n[1] <= n[2]
        /\ f[n[1]] # nothing
        /\ \A pc \in Closed(n[1], n[2]) : f[pc] = f[n[1]]
        /\ n[1] > 0 => f[n[1] - 1] # f[n[1]]
        /\ n[2] < MaxPc => f[n[2] + 1] # f[n[1]]}

Intervals(addresses) == Nodes([pc \in Pc |-> pc \in addresses], FALSE)

\* DescriptorRanges::Size: with one range registered or with several
Size(addresses) == Cardinality(Intervals(addresses))

TotalSize(locations) ==
    SumFunctionOnSet([l \in locations |-> Size(ranges_by_descriptor[l])], locations)

Init ==
    /\ block_ranges = [pc \in Pc |-> {}]
    /\ ranges_by_descriptor = [l \in {} |-> {}]
    /\ range_count = 0

\* Mutant: a range that joins one already there is counted as well.
CountOneMore(count, previous, current) == count + 1

Recount(count, previous, current) ==
    IF current >= previous THEN count + (current - previous) ELSE count - (previous - current)

AddRange(range, l) ==
    LET ranges == IF l \in DOMAIN ranges_by_descriptor
                  THEN ranges_by_descriptor[l] \cup range ELSE range
    IN  /\ block_ranges' = [pc \in Pc |->
                IF pc \in range THEN block_ranges[pc] \cup {l} ELSE block_ranges[pc]]
        /\ ranges_by_descriptor' =
                [k \in DOMAIN ranges_by_descriptor \cup {l} |->
                    IF k = l THEN ranges ELSE ranges_by_descriptor[k]]
        /\ range_count' =
                IF l \in DOMAIN ranges_by_descriptor
                THEN Recount(range_count, Size(ranges_by_descriptor[l]), Size(ranges))
                ELSE range_count + Size(ranges)

\* RegisterNewBasicBlock: the last address is EndLocation().PC() - 1, computed
\* in u32, so a block that ends with the address space ends at MaxPc.
RegisterNewBasicBlock(l, pc, bytes) ==
    LET end == (pc + bytes) % (MaxPc + 1)
    IN  AddRange(Closed(pc, (end - 1) % (MaxPc + 1)), l)

\* Mutant: only the lowest range of each location is taken out of the map.
InvalidateLowest(locations) ==
    LET present == locations \cap DOMAIN ranges_by_descriptor
        Lowest(l) == {pc \in ranges_by_descriptor[l] :
                        Closed(Min(ranges_by_descriptor[l]), pc) \subseteq ranges_by_descriptor[l]}
    IN  /\ block_ranges' = [pc \in Pc |->
                {l \in block_ranges[pc] : l \notin present \/ pc \notin Lowest(l)}]
        /\ range_count' = range_count - TotalSize(present)
        /\ ranges_by_descriptor' =
                [l \in DOMAIN ranges_by_descriptor \ present |-> ranges_by_descriptor[l]]

InvalidateLocations(locations) ==
    LET present == locations \cap DOMAIN ranges_by_descriptor
    IN  /\ block_ranges' = [pc \in Pc |->
                {l \in block_ranges[pc] :
                    l \notin present \/ pc \notin ranges_by_descriptor[l]}]
        /\ range_count' = range_count - TotalSize(present)
        /\ ranges_by_descriptor' =
                [l \in DOMAIN ranges_by_descriptor \ present |-> ranges_by_descriptor[l]]

\* Mutant: one node of each interval is visited, as equal_range would.
VisitFirst(interval) ==
    LET visited == {n \in Nodes(block_ranges, {}) : n[2] >= interval[1] /\ n[1] <= interval[2]}
    IN  {n \in visited : \A m \in visited : n[1] <= m[1]}

\* The nodes from lower_bound(first) on, up to the first that begins after last.
Visit(interval) ==
    {n \in Nodes(block_ranges, {}) : n[2] >= interval[1] /\ n[1] <= interval[2]}

EraseLocations(addresses) ==
    UNION {block_ranges[n[1]] : n \in UNION {Visit(i) : i \in Intervals(addresses)}}

InvalidateRanges(addresses) == InvalidateLocations(EraseLocations(addresses))

ClearCache ==
    /\ block_ranges' = [pc \in Pc |-> {}]
    /\ ranges_by_descriptor' = [l \in {} |-> {}]
    /\ range_count' = 0

Next ==
    \/ \E l \in Location, pc \in Pc, bytes \in 1 .. MaxBlockBytes :
        /\ pc + bytes <= MaxPc + 1          \* no block runs past the last address
        /\ RegisterNewBasicBlock(l, pc, bytes)
    \/ \E addresses \in SUBSET Pc : InvalidateRanges(addresses)
    \/ \E locations \in SUBSET Location : InvalidateLocations(locations)
    \/ ClearCache

Spec == Init /\ [][Next]_vars

-----------------------------------------------------------------------------
(* Properties                                                              *)

\* The two directions of the index agree after any mixture of AddRange and
\* invalidation: no old range of a location stays discoverable
\* (InvalidateLocations), and none is missing.
DirectionsAgree ==
    \A pc \in Pc : \A l \in Location :
        l \in block_ranges[pc] <=>
            /\ l \in DOMAIN ranges_by_descriptor
            /\ pc \in ranges_by_descriptor[l]

\* GetStats: the count kept by AddRange and InvalidateLocations is the number of
\* joined ranges of all the locations present.
RangeCountIsExact == range_count = TotalSize(DOMAIN ranges_by_descriptor)

\* InvalidateRanges, asked for any ranges in any reachable state, finds the
\* locations registered for an address in them and no other, across joined,
\* split and shared nodes of the map and up to the last address.
InvalidationIsExact ==
    \A addresses \in SUBSET Pc :
        EraseLocations(addresses) =
            {l \in DOMAIN ranges_by_descriptor : ranges_by_descriptor[l] \cap addresses # {}}
=============================================================================
