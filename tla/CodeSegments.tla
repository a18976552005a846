---------------------------- MODULE CodeSegments ----------------------------
(***************************************************************************)
(* The host-code segments of NativeCodeSlab::Impl                          *)
(* (src/umbra/backend/arm64/a32_interface.cpp, lines 116-265): the code    *)
(* cache behind the prelude is cut into equal segments, new code is        *)
(* appended to the current one, and when it is full the slab moves on to   *)
(* an unused segment, or recycles the one touched longest ago.             *)
(*                                                                         *)
(* Host addresses are natural numbers.  0 is nullptr; the prelude's entry  *)
(* points lie below CodeSegmentsBegin.                                     *)
(*                                                                         *)
(* segment_touch_clock is a 64-bit counter whose values are only ever      *)
(* compared with each other, so last_touch holds the rank of the clock     *)
(* value instead of the value: 0 for a segment never touched since the     *)
(* last reset, otherwise 1 for the coldest one.                            *)
(***************************************************************************)
EXTENDS Integers, FiniteSets

CONSTANTS
    CodeSegmentsBegin,      \* code_segments_begin: first address after the prelude
    UsableBytes,            \* usable_bytes of the code cache
    MinimumSegmentBytes,    \* minimum_segment_bytes (16 MiB in the code)
    TargetSegmentBytes,     \* target_segment_bytes (32 MiB)
    MaximumSegmentCount,    \* maximum_segment_count (48)
    SegmentAlignment        \* alignment (one page)

ASSUME SegmentAssumption ==
    /\ CodeSegmentsBegin \in Nat \ (0..2)
    /\ {UsableBytes, MinimumSegmentBytes, TargetSegmentBytes,
        MaximumSegmentCount, SegmentAlignment} \subseteq Nat \ {0}
    /\ SegmentAlignment =< MinimumSegmentBytes

LeastOf(a, b) == IF a =< b THEN a ELSE b
GreatestOf(a, b) == IF a >= b THEN a ELSE b

-----------------------------------------------------------------------------
(* initialize_code_segments: the geometry, for a cache of u usable bytes.  *)

SegmentCountFor(u) ==
    LET target_count == GreatestOf(1, (u + TargetSegmentBytes - 1) \div TargetSegmentBytes)
        maximum_by_minimum == GreatestOf(1, u \div MinimumSegmentBytes)
    IN  LeastOf(MaximumSegmentCount, LeastOf(target_count, maximum_by_minimum))

RegularBytesFor(u) ==
    LET share == u \div SegmentCountFor(u)
        aligned == share - (share % SegmentAlignment)
    IN  IF aligned = 0 THEN u ELSE aligned

SegmentBeginFor(u, i) == CodeSegmentsBegin + i * RegularBytesFor(u)

SegmentEndFor(u, i) ==
    IF i + 1 = SegmentCountFor(u)
    THEN CodeSegmentsBegin + u
    ELSE SegmentBeginFor(u, i) + RegularBytesFor(u)

\* code_segment_index: -1 stands for std::nullopt
CodeSegmentIndexFor(u, address) ==
    IF address < CodeSegmentsBegin \/ address >= CodeSegmentsBegin + u
    THEN -1
    ELSE LeastOf((address - CodeSegmentsBegin) \div RegularBytesFor(u),
                 SegmentCountFor(u) - 1)

SegmentCount == SegmentCountFor(UsableBytes)
Segment == 0 .. SegmentCount - 1
SegmentBegin(i) == SegmentBeginFor(UsableBytes, i)
SegmentEnd(i) == SegmentEndFor(UsableBytes, i)
CodeSegmentIndex(address) == CodeSegmentIndexFor(UsableBytes, address)
HostAddress == CodeSegmentsBegin .. CodeSegmentsBegin + UsableBytes

-----------------------------------------------------------------------------
(* The segment table and its operations, as functions on the record        *)
(*   [current, initialized, last_touch, used, live].                       *)

SegmentsType ==
    [current : Segment,
     initialized : SUBSET Segment,
     last_touch : [Segment -> 0 .. SegmentCount],
     used : [Segment -> Nat],       \* used_bytes
     live : Nat]                    \* live_allocated_code_bytes

ResetCodeSegments ==
    [current |-> 0,
     initialized |-> {0},
     last_touch |-> [i \in Segment |-> IF i = 0 THEN 1 ELSE 0],
     used |-> [i \in Segment |-> 0],
     live |-> 0]

\* Mutant: the clock is not advanced, so the segment ties with the hottest one.
MakeHottestWithoutTick(last_touch, initialized, i) ==
    [last_touch EXCEPT ![i] = Cardinality(initialized) + 1]

\* last_touch = ++segment_touch_clock, in ranks: i becomes the hottest of the
\* initialized segments and the hotter ones move down.
MakeHottest(last_touch, initialized, i) ==
    [j \in Segment |->
        IF j = i THEN Cardinality(initialized)
        ELSE IF last_touch[i] # 0 /\ last_touch[j] > last_touch[i] THEN last_touch[j] - 1
        ELSE last_touch[j]]

\* A touch of a segment that is not initialized changes nothing that is read:
\* select_recycle_segment takes such a segment whatever its clock value.
TouchCodeSegment(sg, entrypoint) ==
    LET i == CodeSegmentIndex(entrypoint)
    IN  IF i \in sg.initialized
        THEN [sg EXCEPT !.last_touch = MakeHottest(@, sg.initialized, i)]
        ELSE sg

UpdateActiveSegmentUsage(sg, code_ptr) ==
    LET i == sg.current
        occupied == GreatestOf(0, LeastOf(code_ptr, SegmentEnd(i)) - SegmentBegin(i))
        grown == GreatestOf(0, occupied - sg.used[i])
    IN  [sg EXCEPT !.used[i] = @ + grown, !.live = @ + grown]

ActiveSegmentSpaceRemaining(sg, code_ptr) ==
    GreatestOf(0, SegmentEnd(sg.current) - code_ptr)

\* Ring order starting after the current segment.
RingDistance(from, to) == (to - from - 1) % SegmentCount

\* Mutant: the coldest segment may be the current one.
SelectColdestSegment(sg) ==
    IF SegmentCount =< 1
    THEN 0
    ELSE LET unused == Segment \ sg.initialized
         IN  IF unused # {}
             THEN CHOOSE i \in unused :
                    \A j \in unused : RingDistance(sg.current, i) =< RingDistance(sg.current, j)
             ELSE CHOOSE i \in Segment :
                    \A j \in Segment : sg.last_touch[i] =< sg.last_touch[j]

SelectRecycleSegment(sg) ==
    IF SegmentCount =< 1
    THEN 0
    ELSE LET unused == Segment \ sg.initialized
             cold == Segment \ {sg.current}
         IN  IF unused # {}
             THEN CHOOSE i \in unused :
                    \A j \in unused : RingDistance(sg.current, i) =< RingDistance(sg.current, j)
             ELSE CHOOSE i \in cold :
                    \A j \in cold : sg.last_touch[i] =< sg.last_touch[j]

\* Mutant: the bytes of the recycled segment stay counted as live.
RecycleKeepingLiveBytes(sg, victim) ==
    [current |-> victim,
     initialized |-> sg.initialized \cup {victim},
     last_touch |-> MakeHottest(sg.last_touch, sg.initialized \cup {victim}, victim),
     used |-> [sg.used EXCEPT ![victim] = 0],
     live |-> sg.live]

\* recycle_code_segment without the retirement of the blocks, which is
\* RetireCodeRange of the address space.
RecycleCodeSegment(sg, victim) ==
    [current |-> victim,
     initialized |-> sg.initialized \cup {victim},
     last_touch |-> MakeHottest(sg.last_touch, sg.initialized \cup {victim}, victim),
     used |-> [sg.used EXCEPT ![victim] = 0],
     live |-> GreatestOf(0, sg.live - sg.used[victim])]
=============================================================================
