---------------------------- MODULE AddressSpace ----------------------------
(***************************************************************************)
(* Backend::Arm64::AddressSpace and A32AddressSpace                        *)
(* (src/umbra/backend/arm64/address_space.cpp, a32_address_space.cpp): the *)
(* emitted blocks, the direct links between them and the indexes that find *)
(* them again.  The operations are functions on the record                 *)
(*   entries   block_entries: the current code of a location, or NullPtr   *)
(*   infos     block_infos and reverse_block_entries, which are filled and *)
(*             emptied together: the blocks still in host memory, by entry *)
(*             point.  "link" is what the block's relocation slots hold:   *)
(*             the entry point branched to, or NullPtr for the fall-through*)
(*             to the dispatcher                                           *)
(*   refs      block_references: who links to a location                   *)
(*   pending   pending_block_relinks                                       *)
(*   ranges    block_ranges: the guest addresses a location is registered  *)
(*             under (BlockRangeInformation shows how that index is kept)  *)
(*   do_not_fastmem  FastmemManager's set: the locations whose block has   *)
(*             faulted and is emitted without fastmem from then on         *)
(*   ptr       the code generator's write pointer                          *)
(* A block's "fastmem" says that it has a fastmem_patch_info entry; one    *)
(* memory access per block stands for all.                                 *)
(***************************************************************************)
EXTENDS Integers, FiniteSetsExt

CONSTANTS
    Fastmem,        \* fastmem_pointer is set, with recompile_on_fastmem_failure
    Location,       \* IR::LocationDescriptor values
    MaxAddress,     \* the greatest guest address
    Targets,        \* the locations the terminal of a location's block links to
    Covers,         \* the guest ranges a location's block may be translated from
    BlockSize       \* host code sizes a block may be emitted with

GuestAddress == 0 .. MaxAddress
NullPtr == 0

ASSUME AddressSpaceAssumption ==
    /\ Fastmem \in BOOLEAN
    /\ MaxAddress \in Nat
    /\ Targets \in [Location -> SUBSET Location]
    /\ Covers \in [Location -> SUBSET ((SUBSET GuestAddress) \ {{}})]
    /\ BlockSize \subseteq Nat \ {0}

EmptySpace(ptr) ==
    [entries |-> [l \in Location |-> NullPtr],
     infos |-> [p \in {} |-> NullPtr],
     refs |-> [l \in Location |-> {}],
     pending |-> {},
     ranges |-> [l \in Location |-> {}],
     do_not_fastmem |-> {},
     ptr |-> ptr]

Get(sp, l) == sp.entries[l]

\* FastmemManager::ShouldFastmem
ShouldFastmem(sp, l) == Fastmem /\ l \notin sp.do_not_fastmem

\* ReverseGetEntryPoint: the block whose entry point is the last one up to host_pc.
ReverseGetEntryPoint(sp, host_pc) ==
    LET before == {p \in DOMAIN sp.infos : p =< host_pc}
    IN  IF before = {} THEN NullPtr ELSE Max(before)

-----------------------------------------------------------------------------
\* RelinkForDescriptor, for each location of DOMAIN to: the slots that refer to
\* it, in the blocks that block_references names, are patched to to[l].
Slot(sp, to, p, l) ==
    IF l \in DOMAIN to /\ p \in sp.refs[l] THEN to[l] ELSE sp.infos[p].link[l]

Relink(sp, to) ==
    [sp EXCEPT !.infos =
        [p \in DOMAIN sp.infos |->
            [sp.infos[p] EXCEPT !.link =
                [l \in DOMAIN sp.infos[p].link |-> Slot(sp, to, p, l)]]]]

Unlink(sp, locations) == Relink(sp, [l \in locations |-> NullPtr])

\* Mutant: the descriptor is erased without RelinkForDescriptor(descriptor, nullptr).
InvalidateWithoutUnlinking(sp, locations) ==
    [sp EXCEPT
        !.entries = [l \in Location |-> IF l \in locations THEN NullPtr ELSE @[l]],
        !.pending = @ \ locations]

\* Mutant: the infos of an invalidated block are erased with its entry.
InvalidateErasingInfos(sp, locations) ==
    [InvalidateWithoutUnlinking(Unlink(sp, locations), locations) EXCEPT
        !.infos = [p \in DOMAIN sp.infos \ {sp.entries[l] : l \in locations} |-> @[p]]]

\* The code of an invalidated block stays where it is, and so do its infos.
InvalidateBasicBlocks(sp, locations) ==
    LET gone == {l \in locations : sp.entries[l] # NullPtr}
    IN  [Unlink(sp, gone) EXCEPT
            !.entries = [l \in Location |-> IF l \in gone THEN NullPtr ELSE @[l]],
            !.pending = @ \ gone]

\* Mutant: the marker is recorded, the block stays in use.
FastmemMarkingOnly(sp, host_pc) ==
    [sp EXCEPT !.do_not_fastmem = @ \cup {sp.infos[ReverseGetEntryPoint(sp, host_pc)].location}]

\* Mutant: the handler forgets the block and leaves the branches to it.
FastmemLeavingLinks(sp, host_pc) ==
    LET l == sp.infos[ReverseGetEntryPoint(sp, host_pc)].location
    IN  [sp EXCEPT !.do_not_fastmem = @ \cup {l}, !.entries[l] = NullPtr]

\* FastmemCallback: the thread faulted at host_pc in the block.  The block is
\* invalidated under its own execution, which goes on at the fallback path.
FastmemCallback(sp, host_pc) ==
    LET l == sp.infos[ReverseGetEntryPoint(sp, host_pc)].location
    IN  InvalidateBasicBlocks([sp EXCEPT !.do_not_fastmem = @ \cup {l}], {l})

\* ClearCache: FastmemManager forgets nothing.
ClearSpace(sp, ptr) == [EmptySpace(ptr) EXCEPT !.do_not_fastmem = sp.do_not_fastmem]

PublishPendingBlockRelinks(sp) ==
    LET present == {l \in sp.pending : sp.entries[l] # NullPtr}
    IN  [Relink(sp, [l \in present |-> sp.entries[l]]) EXCEPT !.pending = {}]

\* The blocks whose entry point lies in [begin, end) and the locations whose
\* current code is one of them.
BlocksIn(sp, begin, end) == {p \in DOMAIN sp.infos : begin =< p /\ p < end}
RetiredLocations(sp, begin, end) ==
    {l \in Location : sp.entries[l] \in BlocksIn(sp, begin, end)}

\* Mutant: blocks that were invalidated before keep their infos.
RetireCurrentOnly(sp, begin, end) ==
    LET gone == RetiredLocations(sp, begin, end)
        dead == {sp.entries[l] : l \in gone}
    IN  [Unlink(sp, gone) EXCEPT
            !.entries = [l \in Location |-> IF l \in gone THEN NullPtr ELSE @[l]],
            !.pending = @ \ gone,
            !.refs = [l \in Location |-> @[l] \ dead],
            !.infos = [p \in DOMAIN @ \ dead |-> @[p]]]

RetireCodeRange(sp, begin, end) ==
    LET dead == BlocksIn(sp, begin, end)
        gone == RetiredLocations(sp, begin, end)
        unlinked == Unlink(sp, gone)
    IN  [unlinked EXCEPT
            !.entries = [l \in Location |-> IF l \in gone THEN NullPtr ELSE @[l]],
            !.pending = @ \ gone,
            !.refs = [l \in Location |->
                        @[l] \ {p \in dead : l \in DOMAIN sp.infos[p].link}],
            !.infos = [p \in DOMAIN @ \ dead |-> @[p]]]

\* Mutant: a deferred relink is not entered in pending_block_relinks.
EmitForgettingRelinks(sp, l, cover, size, defer) ==
    LET p == sp.ptr
        entries == [sp.entries EXCEPT ![l] = p]
        info == [location |-> l, size |-> size, cover |-> cover,
                 fastmem |-> ShouldFastmem(sp, l), link |-> [t \in Targets[l] |-> entries[t]]]
        linked == [sp EXCEPT
                    !.entries = entries,
                    !.infos = [q \in DOMAIN @ \cup {p} |-> IF q = p THEN info ELSE @[q]],
                    !.refs = [t \in Location |->
                                IF t \in Targets[l] THEN @[t] \cup {p} ELSE @[t]],
                    !.ranges[l] = @ \cup cover,
                    !.ptr = p + size]
    IN  IF defer THEN linked ELSE Relink(linked, [t \in {l} |-> p])

\* EmitBlock: the code goes to the write pointer, is entered in the indexes,
\* linked to the targets that exist, and the blocks that refer to the location
\* are relinked to it now, or later when relinks are deferred.
EmitBlock(sp, l, cover, size, defer) ==
    LET p == sp.ptr
        entries == [sp.entries EXCEPT ![l] = p]
        info == [location |-> l, size |-> size, cover |-> cover,
                 fastmem |-> ShouldFastmem(sp, l), link |-> [t \in Targets[l] |-> entries[t]]]
        linked == [sp EXCEPT
                    !.entries = entries,
                    !.infos = [q \in DOMAIN @ \cup {p} |-> IF q = p THEN info ELSE @[q]],
                    !.refs = [t \in Location |->
                                IF t \in Targets[l] THEN @[t] \cup {p} ELSE @[t]],
                    !.ranges[l] = @ \cup cover,
                    !.ptr = p + size]
    IN  IF defer
        THEN [linked EXCEPT !.pending = @ \cup {l}]
        ELSE Relink(linked, [t \in {l} |-> p])

-----------------------------------------------------------------------------
(* A32AddressSpace                                                         *)

InvalidateLocations(sp, locations) ==
    [sp EXCEPT !.ranges = [l \in Location |-> IF l \in locations THEN {} ELSE @[l]]]

LocationsIn(sp, addresses) == {l \in Location : sp.ranges[l] \cap addresses # {}}

InvalidateCacheRanges(sp, addresses) ==
    LET locations == LocationsIn(sp, addresses)
    IN  InvalidateBasicBlocks(InvalidateLocations(sp, locations), locations)

\* Mutant: the ranges of every block found in the segment are dropped, also when
\* the location has newer code elsewhere.
RetireRangesOfOldCode(sp, begin, end) ==
    InvalidateLocations(RetireCodeRange(sp, begin, end),
                        {sp.infos[p].location : p \in BlocksIn(sp, begin, end)})

RetireCodeRangeAndRanges(sp, begin, end) ==
    InvalidateLocations(RetireCodeRange(sp, begin, end),
                        RetiredLocations(sp, begin, end))

\* InclusiveRangeEnd of a32_interface.cpp: the last address saturates.
AddressRange(start_address, length) ==
    {a \in GuestAddress : start_address =< a /\ a < start_address + length}

-----------------------------------------------------------------------------
(* What the indexes promise, as predicates on the record.                  *)

IsBlockInfo(info) ==
    info \in [location : Location, size : BlockSize, cover : SUBSET GuestAddress,
              fastmem : BOOLEAN, link : [Targets[info.location] -> Nat]]

IsSpace(sp) ==
    /\ DOMAIN sp = {"entries", "infos", "refs", "pending", "ranges",
                  "do_not_fastmem", "ptr"}
    /\ sp.entries \in [Location -> Nat]
    /\ DOMAIN sp.infos \subseteq Nat \ {NullPtr}
    /\ \A p \in DOMAIN sp.infos : IsBlockInfo(sp.infos[p])
    /\ sp.refs \in [Location -> SUBSET Nat]
    /\ sp.pending \in SUBSET Location
    /\ sp.ranges \in [Location -> SUBSET GuestAddress]
    /\ sp.do_not_fastmem \in SUBSET Location
    /\ sp.ptr \in Nat \ {NullPtr}

\* A slot holds NullPtr or the current code of its target.
LinksAreCurrent(sp) ==
    \A p \in DOMAIN sp.infos : \A l \in DOMAIN sp.infos[p].link :
        sp.infos[p].link[l] \in {NullPtr, sp.entries[l]}

\* A slot is left unlinked although its target exists only while the relink is pending.
LinksAreComplete(sp) ==
    \A p \in DOMAIN sp.infos : \A l \in DOMAIN sp.infos[p].link :
        sp.infos[p].link[l] # sp.entries[l] => l \in sp.pending

\* block_references names exactly the blocks with a slot for the location.
ReferencesAreExact(sp) ==
    \A l \in Location :
        sp.refs[l] = {p \in DOMAIN sp.infos : l \in DOMAIN sp.infos[p].link}

\* A location's current code is in host memory, is that location's, and an
\* invalidation of any guest address it was translated from will find it.
EntriesAreIndexed(sp) ==
    \A l \in Location : sp.entries[l] # NullPtr =>
        /\ sp.entries[l] \in DOMAIN sp.infos
        /\ sp.infos[sp.entries[l]].location = l
        /\ sp.infos[sp.entries[l]].cover \subseteq sp.ranges[l]

\* No two blocks share host memory.
BlocksAreDisjoint(sp) ==
    \A p, q \in DOMAIN sp.infos : p < q => p + sp.infos[p].size =< q
=============================================================================
