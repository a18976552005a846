-------------------- MODULE BlockRangeInformationProofs ---------------------
(***************************************************************************)
(* The two directions of BlockRangeInformation describe one relation, for  *)
(* every set of locations and every width of the program counter.          *)
(***************************************************************************)
EXTENDS BlockRangeInformation, TLAPS

\* The types of the two directions
IndexType ==
    /\ block_ranges \in [Pc -> SUBSET Location]
    /\ DOMAIN ranges_by_descriptor \subseteq Location
    /\ ranges_by_descriptor \in [DOMAIN ranges_by_descriptor -> SUBSET Pc]

Inv == IndexType /\ DirectionsAgree

\* AddRange puts the location under every address of the range and the range
\* under the location.
LEMMA AddRangeStep ==
    ASSUME Inv, NEW l \in Location, NEW range \in SUBSET Pc, AddRange(range, l)
    PROVE  Inv'
<1> DEFINE old == ranges_by_descriptor
<1> DEFINE ranges == IF l \in DOMAIN old THEN old[l] \cup range ELSE range
<1>1. block_ranges' = [pc \in Pc |->
            IF pc \in range THEN block_ranges[pc] \cup {l} ELSE block_ranges[pc]]
  BY DEF AddRange
<1>2. old' = [k \in DOMAIN old \cup {l} |-> IF k = l THEN ranges ELSE old[k]]
  BY DEF AddRange
<1>3. ranges \in SUBSET Pc
  BY DEF Inv, IndexType
<1>4. IndexType'
  <2>1. block_ranges' \in [Pc -> SUBSET Location]
    BY <1>1 DEF Inv, IndexType
  <2>2. DOMAIN old' = DOMAIN old \cup {l}
    BY <1>2
  <2>3. old' \in [DOMAIN old' -> SUBSET Pc]
    BY <1>2, <1>3, <2>2 DEF Inv, IndexType
  <2> QED BY <2>1, <2>2, <2>3 DEF Inv, IndexType
<1>5. DirectionsAgree'
  <2> SUFFICES ASSUME NEW pc \in Pc, NEW k \in Location
               PROVE  k \in block_ranges'[pc] <=> k \in DOMAIN old' /\ pc \in old'[k]
    BY DEF DirectionsAgree
  <2>1. k \in block_ranges[pc] <=> k \in DOMAIN old /\ pc \in old[k]
    BY DEF Inv, DirectionsAgree
  <2>2. CASE k = l
    BY <1>1, <1>2, <2>1, <2>2
  <2>3. CASE k # l
    BY <1>1, <1>2, <2>1, <2>3
  <2> QED BY <2>2, <2>3
<1> QED BY <1>4, <1>5 DEF Inv

\* InvalidateLocations takes a location out of every address it was under.
LEMMA InvalidateStep ==
    ASSUME Inv, NEW locations, InvalidateLocations(locations)
    PROVE  Inv'
<1> DEFINE old == ranges_by_descriptor
<1> DEFINE present == locations \cap DOMAIN old
<1>1. block_ranges' = [pc \in Pc |->
            {l \in block_ranges[pc] : l \notin present \/ pc \notin old[l]}]
  BY DEF InvalidateLocations
<1>2. old' = [l \in DOMAIN old \ present |-> old[l]]
  BY DEF InvalidateLocations
<1>3. IndexType'
  BY <1>1, <1>2 DEF Inv, IndexType
<1>4. DirectionsAgree'
  <2> SUFFICES ASSUME NEW pc \in Pc, NEW k \in Location
               PROVE  k \in block_ranges'[pc] <=> k \in DOMAIN old' /\ pc \in old'[k]
    BY DEF DirectionsAgree
  <2>1. k \in block_ranges[pc] <=> k \in DOMAIN old /\ pc \in old[k]
    BY DEF Inv, DirectionsAgree
  <2> QED BY <1>1, <1>2, <2>1
<1> QED BY <1>3, <1>4 DEF Inv

\* The index of BlockRangeInformation is the same relation in both directions:
\* what RegisterNewBasicBlock records, InvalidateRanges, InvalidateLocations and
\* ClearCache take out of both.
THEOREM DirectionsAgreeTheorem == Spec => []DirectionsAgree
<1>1. Init => Inv
  BY DEF Init, Inv, IndexType, DirectionsAgree
<1>2. Inv /\ [Next]_vars => Inv'
  <2> SUFFICES ASSUME Inv, [Next]_vars PROVE Inv'
    OBVIOUS
  <2>1. ASSUME NEW l \in Location, NEW pc \in Pc, NEW bytes \in 1 .. MaxBlockBytes,
               RegisterNewBasicBlock(l, pc, bytes)
        PROVE  Inv'
    <3> DEFINE range == Closed(pc, (((pc + bytes) % (MaxPc + 1)) - 1) % (MaxPc + 1))
    <3>1. AddRange(range, l)
      BY <2>1 DEF RegisterNewBasicBlock
    <3>2. range \in SUBSET Pc
      BY DEF Closed
    <3> QED BY <3>1, <3>2, AddRangeStep
  <2>2. ASSUME NEW addresses \in SUBSET Pc, InvalidateRanges(addresses)
        PROVE  Inv'
    BY <2>2, InvalidateStep DEF InvalidateRanges
  <2>3. ASSUME NEW locations \in SUBSET Location, InvalidateLocations(locations)
        PROVE  Inv'
    BY <2>3, InvalidateStep
  <2>4. CASE ClearCache
    BY <2>4 DEF ClearCache, Inv, IndexType, DirectionsAgree
  <2>5. CASE UNCHANGED vars
    BY <2>5 DEF vars, Inv, IndexType, DirectionsAgree
  <2> QED BY <2>1, <2>2, <2>3, <2>4, <2>5 DEF Next
<1> QED BY <1>1, <1>2, PTL DEF Spec, Inv
=============================================================================
