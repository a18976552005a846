--------------------------- MODULE NativeCodeSlab ---------------------------
(***************************************************************************)
(* A32::NativeCodeSlab (src/umbra/backend/arm64/a32_interface.cpp): the    *)
(* code cache that several Jits may share, with its clients as far as the  *)
(* slab knows them: an executor enters, looks a block up or has it         *)
(* emitted, runs native code and leaves, while any thread may clear,       *)
(* recycle, invalidate or precompile.  A32Jit has the Jit's own steps and  *)
(* implements this specification.                                          *)
(***************************************************************************)
EXTENDS NativeCodeSlabImpl, FiniteSetsExt

CONSTANTS
    ReturnStackBuffer,  \* OptimizationFlag::ReturnStackBuffer
    EmitMayThrow,       \* emit may fail with an exception, as the tests inject it
    MaxGeneration       \* bound on current_generation

ASSUME ExecutionAssumption ==
    /\ ReturnStackBuffer \in BOOLEAN
    /\ EmitMayThrow \in BOOLEAN
    /\ MaxGeneration \in Nat \ {0}

VARIABLES
    slab,       \* NativeCodeSlab::Impl
    phase,      \* where each executor is between enter and leave
    ptr,        \* the entry point it holds (before run_code) or executes, or NullPtr
    rsb         \* the entry points in its return stack buffer

vars == <<slab, phase, ptr, rsb>>

Phase == {"out", "enter", "start", "native", "dispatch", "returning", "done"}

-----------------------------------------------------------------------------
(* The executors.  Phases:                                                 *)
(*   out        not executing                                              *)
(*   enter      active, looking up the first block                         *)
(*   start      holds ptr, about to call run_code or step_code             *)
(*   native     executes the block at ptr                                  *)
(*   dispatch   looking up the next block, called from native code         *)
(*   returning  on the way out of native code                              *)
(*   done       run_code has returned; about to leave                      *)

Init ==
    /\ slab = InitialSlab
    /\ phase = [e \in Executor |-> "out"]
    /\ ptr = [e \in Executor |-> NullPtr]
    /\ rsb = [e \in Executor |-> {}]

Register(e) ==
    /\ phase[e] = "out"
    /\ e \notin slab.registered
    /\ slab' = RegisterExecutor(slab, e)
    /\ UNCHANGED <<phase, ptr, rsb>>

Unregister(e) ==
    /\ phase[e] = "out"
    /\ e \in slab.registered \ slab.active
    /\ e \notin Resident
    /\ slab' = UnregisterExecutor(slab, e)
    /\ UNCHANGED <<phase, ptr, rsb>>

Enter(e) ==
    /\ phase[e] = "out"
    /\ EnterReady(slab)
    /\ EnterAllowed(slab, e)
    /\ slab' = EnterExecution(slab, e)
    /\ phase' = [phase EXCEPT ![e] = "enter"]
    /\ UNCHANGED <<ptr, rsb>>

\* e is on its way out of native code, or continues with the code at p.
Returns(e) ==
    /\ phase' = [phase EXCEPT ![e] = "returning"]
    /\ ptr' = [ptr EXCEPT ![e] = NullPtr]

Executes(e, p) ==
    /\ phase' = [phase EXCEPT ![e] = "native"]
    /\ ptr' = [ptr EXCEPT ![e] = p]

\* The lookup answers p: a first block is held for run_code, a later one is
\* branched to by the dispatcher.
LookupAnswers(e, p) ==
    /\ UNCHANGED rsb
    /\ \/ /\ phase[e] = "enter"
          /\ phase' = [phase EXCEPT ![e] = "start"]
          /\ ptr' = [ptr EXCEPT ![e] = p]
       \/ /\ phase[e] = "dispatch"
          /\ IF p = ReturnFromRunCodeAddress THEN Returns(e) ELSE Executes(e, p)

Find(e, l) ==
    /\ Findable(slab, l, slab.generation[e])
    /\ slab' = Touch(slab, Get(slab.space, l))
    /\ LookupAnswers(e, Get(slab.space, l))

\* The contract of emit: a new block fits in what is left of the segment.
Fits(s, l, size) ==
    \/ Get(s.space, l) # NullPtr
    \/ size =< ActiveSegmentSpaceRemaining(s.segments, s.space.ptr)

Emit(e, l, cover, size) ==
    /\ Fits(slab, l, size)
    /\ slab' = EmitToSlab(slab, l, cover, size, slab.generation[e], TRUE)
    /\ LET p == EmittedEntrypoint(slab, l, slab.generation[e])
       IN  LookupAnswers(e, IF p = NullPtr THEN ReturnFromRunCodeAddress ELSE p)

\* The lookup ends without a block: no space, or emit returned {}.
GiveUp(e) ==
    /\ LookupAnswers(e, ReturnFromRunCodeAddress)
    /\ UNCHANGED slab

\* emit throws after the code is in place.
Throws(s, l, cover, size, expected_generation, caller_executing) ==
    /\ EmitMayThrow
    /\ Emittable(s, expected_generation)
    /\ Get(s.space, l) = NullPtr
    /\ Fits(s, l, size)
    /\ slab' = EmitAbandoned(s, l, cover, size, caller_executing)
    /\ UNCHANGED <<phase, ptr, rsb>>

EmitThrows(e, l, cover, size) ==
    /\ phase[e] \in {"enter", "dispatch"}
    /\ Throws(slab, l, cover, size, slab.generation[e], TRUE)

\* The exception leaves Run or Step through its scope exit, before run_code.
Unwind(e) ==
    /\ EmitMayThrow
    /\ phase[e] = "enter"
    /\ phase' = [phase EXCEPT ![e] = "done"]
    /\ UNCHANGED <<slab, ptr, rsb>>

\* Mutant: the return stack buffer is not initialised.
RunCodeKeepingRSB(e) ==
    /\ phase[e] = "start"
    /\ slab' = Touch(slab, ptr[e])
    /\ UNCHANGED rsb
    /\ IF slab.halt_reason[e] = {} /\ ptr[e] # ReturnFromRunCodeAddress
       THEN Executes(e, ptr[e]) ELSE Returns(e)

\* run_code: the return stack buffer is filled with return_to_dispatcher and a
\* halt reason that is already set is honoured before the first block.
RunCode(e) ==
    /\ phase[e] = "start"
    /\ slab' = Touch(slab, ptr[e])
    /\ rsb' = [rsb EXCEPT ![e] = {}]
    /\ IF slab.halt_reason[e] = {} /\ ptr[e] # ReturnFromRunCodeAddress
       THEN Executes(e, ptr[e]) ELSE Returns(e)

\* step_code sets Step when no halt reason is set, so that the dispatcher
\* returns after one block.
StepCode(e) ==
    /\ phase[e] = "start"
    /\ slab' = [Touch(slab, ptr[e]) EXCEPT !.halt_reason[e] = IF @ = {} THEN {"Step"} ELSE @]
    /\ rsb' = [rsb EXCEPT ![e] = {}]
    /\ IF slab.halt_reason[e] = {} /\ ptr[e] # ReturnFromRunCodeAddress
       THEN Executes(e, ptr[e]) ELSE Returns(e)

\* The slots and the host addresses of the block being executed.
LinkOf(e) == slab.space.infos[ptr[e]].link
CodeOf(e) ==
    IF phase[e] = "native" THEN ptr[e] .. ptr[e] + slab.space.infos[ptr[e]].size - 1 ELSE {}

\* Branch relocation
FollowLink(e, l) ==
    /\ phase[e] = "native"
    /\ l \in DOMAIN LinkOf(e)
    /\ LinkOf(e)[l] # NullPtr
    /\ ptr' = [ptr EXCEPT ![e] = LinkOf(e)[l]]
    /\ UNCHANGED <<slab, phase, rsb>>

\* PushRSB: MoveToScratch1 relocation.  The buffer is kept as the set of entry
\* points pushed since run_code, a superset of what its ring still holds.  It
\* lies on the host stack and is left there when run_code returns.
PushRSB(e, l) ==
    /\ ReturnStackBuffer
    /\ phase[e] = "native"
    /\ l \in DOMAIN LinkOf(e)
    /\ LinkOf(e)[l] # NullPtr
    /\ rsb' = [rsb EXCEPT ![e] = @ \cup {LinkOf(e)[l]}]
    /\ UNCHANGED <<slab, phase, ptr>>

PopRSBHint(e, p) ==
    /\ phase[e] = "native"
    /\ p \in rsb[e]
    /\ ptr' = [ptr EXCEPT ![e] = p]
    /\ UNCHANGED <<slab, phase, rsb>>

\* A memory access of the block faults: the host exception handler calls
\* FastmemCallback on this thread, without the slab's mutex.
FastmemFault(e, host_pc) ==
    /\ phase[e] = "native"
    /\ slab.space.infos[ptr[e]].fastmem
    /\ slab' = [slab EXCEPT !.space = FastmemCallback(@, host_pc)]
    /\ UNCHANGED <<phase, ptr, rsb>>

\* return_to_dispatcher with no halt reason set and ticks left
ReturnToDispatcher(e) ==
    /\ phase[e] = "native"
    /\ slab.halt_reason[e] = {}
    /\ phase' = [phase EXCEPT ![e] = "dispatch"]
    /\ ptr' = [ptr EXCEPT ![e] = NullPtr]
    /\ UNCHANGED <<slab, rsb>>

\* Mutant: a linked block does not poll.
PollNever(e) == FALSE

\* A poll of the halt reason sees it set.
PollHalt(e) ==
    /\ phase[e] = "native"
    /\ slab.halt_reason[e] # {}
    /\ Returns(e)
    /\ UNCHANGED <<slab, rsb>>

\* The ticks or the host execution budget run out.
BudgetExhausted(e) ==
    /\ phase[e] = "native"
    /\ Returns(e)
    /\ UNCHANGED <<slab, rsb>>

\* return_from_run_code exchanges the halt reason with 0.
ReturnFromRunCode(e) ==
    /\ phase[e] = "returning"
    /\ slab' = [slab EXCEPT !.halt_reason[e] = {}]
    /\ phase' = [phase EXCEPT ![e] = "done"]
    /\ UNCHANGED <<ptr, rsb>>

Leave(e) ==
    /\ phase[e] = "done"
    /\ LeaveAllowed(slab, e, slab.generation[e])
    /\ slab' = LeaveExecution(slab, e)
    /\ phase' = [phase EXCEPT ![e] = "out"]
    /\ UNCHANGED <<ptr, rsb>>

-----------------------------------------------------------------------------
(* Calls that any thread may make, executing or not.                       *)

Calls(s) ==
    /\ slab' = s
    /\ UNCHANGED <<phase, ptr, rsb>>

\* The bound on generations: a transition in progress counts as one.
MayAdvance(s) == s.clear_pending \/ s.current_generation < MaxGeneration

ClearCache == MayAdvance(slab) /\ Calls(RequestGenerationTransition(slab, "ClearAll", TRUE))

RecycleCache == MayAdvance(slab) /\ Calls(RequestGenerationTransition(slab, "RecycleSegment", TRUE))

RequestCacheClear == MayAdvance(slab) /\ Calls(RequestGenerationTransition(slab, "ClearAll", FALSE))

InvalidateCacheRange(start_address, length) ==
    Calls(RequestRangeTransition(slab, start_address, length, TRUE))

RequestCacheRange(start_address, length) ==
    Calls(RequestRangeTransition(slab, start_address, length, FALSE))

Service == Calls(ServicePendingInvalidation(slab))

\* Jit::HaltExecution
HaltExecution(e, hr) == Calls([slab EXCEPT !.halt_reason[e] = @ \cup {hr}])

\* Jit::ClearHalt.  CacheInvalidation is cleared by the Jit alone, outside run_code.
ClearHalt(e, hr) ==
    /\ hr = "CacheInvalidation" => phase[e] \in {"out", "done"}
    /\ Calls([slab EXCEPT !.halt_reason[e] = @ \ {hr}])

\* Jit::Reset: jit_state = {}.
Reset(e) ==
    /\ phase[e] = "out"
    /\ Calls([slab EXCEPT !.halt_reason[e] = {}])

\* Precompilation by a thread that is not executing.
PrecompileFind(l) ==
    /\ Findable(slab, l, slab.current_generation)
    /\ Calls(Touch(slab, Get(slab.space, l)))

PrecompileEmit(l, cover, size) ==
    /\ Fits(slab, l, size)
    /\ Calls(EmitToSlab(slab, l, cover, size, slab.current_generation, FALSE))

PrecompileThrows(l, cover, size) ==
    Throws(slab, l, cover, size, slab.current_generation, FALSE)

-----------------------------------------------------------------------------
Lookup(e) ==
    \/ GiveUp(e)
    \/ Unwind(e)
    \/ \E l \in Location : Find(e, l)
    \/ \E l \in Location, size \in BlockSize :
            \E cover \in Covers[l] : Emit(e, l, cover, size) \/ EmitThrows(e, l, cover, size)

NativeStep(e) ==
    \/ \E l \in Location : FollowLink(e, l) \/ PushRSB(e, l)
    \/ \E p \in rsb[e] : PopRSBHint(e, p)
    \/ \E host_pc \in CodeOf(e) : FastmemFault(e, host_pc)
    \/ ReturnToDispatcher(e)
    \/ PollHalt(e)
    \/ BudgetExhausted(e)

ExecutorNext(e) ==
    \/ Register(e)
    \/ Unregister(e)
    \/ Enter(e)
    \/ Lookup(e)
    \/ RunCode(e)
    \/ StepCode(e)
    \/ NativeStep(e)
    \/ ReturnFromRunCode(e)
    \/ Leave(e)
    \/ Reset(e)
    \/ \E hr \in UserHaltReason :
            HaltExecution(e, hr) \/ ClearHalt(e, hr)

CallerNext ==
    \/ ClearCache
    \/ RecycleCache
    \/ RequestCacheClear
    \/ \E start \in GuestAddress, length \in 0 .. MaxAddress + 1 :
            InvalidateCacheRange(start, length) \/ RequestCacheRange(start, length)
    \/ Service
    \/ \E l \in Location : PrecompileFind(l)
    \/ \E l \in Location, size \in BlockSize :
            \E cover \in Covers[l] : PrecompileEmit(l, cover, size) \/ PrecompileThrows(l, cover, size)

Next == CallerNext \/ \E e \in Executor : ExecutorNext(e)

Spec == Init /\ [][Next]_vars

-----------------------------------------------------------------------------
(* Properties                                                              *)

\* The types of the slab's fields and of the executors' positions.
TypeOK ==
    /\ IsSlab(slab)
    /\ phase \in [Executor -> Phase]
    /\ ptr \in [Executor -> Nat]
    /\ rsb \in [Executor -> SUBSET Nat]

\* The executor table is consistent, and an executor is active exactly from
\* enter_execution to leave_execution.
AccountingIsExact ==
    /\ ExecutionAccounting(slab)
    /\ slab.active = {e \in Executor : phase[e] # "out"}

\* leave_execution runs in a scope exit, where its logic_error would terminate
\* the process: whatever was requested while an executor was inside, its
\* generation is still current and it is still counted when it leaves.
LeaveNeverThrows ==
    \A e \in Executor : phase[e] = "done" => LeaveAllowed(slab, e, slab.generation[e])

ReachableCode(e) ==
    ({ptr[e]} \ {NullPtr, ReturnFromRunCodeAddress})
        \cup (IF phase[e] \in {"native", "dispatch"} THEN rsb[e] ELSE {})

\* An executor only ever executes, holds, or can pop from its return stack
\* buffer, code that is the current code of its location: nothing it can branch
\* to has been invalidated, retired or overwritten under it.  The exception is
\* the code of a location that FastmemCallback has invalidated under execution.
ExecutedCodeIsCurrent ==
    \A e \in Executor :
        \A p \in ReachableCode(e) :
            /\ p \in DOMAIN slab.space.infos
            /\ LET info == slab.space.infos[p]
               IN  \/ slab.space.entries[info.location] = p
                   \/ info.location \in slab.space.do_not_fastmem

\* FastmemCallback never takes its fail path: wherever a block faults, the
\* reverse index leads from the faulting address to that block, also when the
\* block has been invalidated by an earlier fault.
FaultsAreFound ==
    \A e \in Executor : phase[e] = "native" =>
        /\ ptr[e] \in DOMAIN slab.space.infos
        /\ \A host_pc \in CodeOf(e) : ReverseGetEntryPoint(slab.space, host_pc) = ptr[e]

\* A location that has faulted is not given fastmem code again, whatever
\* FastmemCallback, a recompilation, a clear and the dispatcher do in between:
\* its current code is the one with the memory callbacks.
FaultingCodeIsReplaced ==
    \A l \in slab.space.do_not_fastmem :
        slab.space.entries[l] # NullPtr => ~slab.space.infos[slab.space.entries[l]].fastmem

\* signal_active_executors: while a transition or a range is pending, every
\* executor that can still run a block has CacheInvalidation set, so that it
\* leaves at its next poll.
PendingIsSignalled ==
    Pending(slab) =>
        \A e \in Executor :
            phase[e] \in {"enter", "start", "native", "dispatch"} =>
                "CacheInvalidation" \in slab.halt_reason[e]

\* A branch slot, in any block still in host memory, leads to the current code
\* of its target or to the dispatcher.
DirectLinksAreCurrent == LinksAreCurrent(slab.space)

\* A missed direct link is on the list of relinks to publish.
DirectLinksAreEventuallyPublishable ==
    LinksAreComplete(slab.space) /\ ReferencesAreExact(slab.space)

\* find_block's index, the reverse index and the guest range index agree: an
\* invalidation of a guest address finds every current block translated from it.
IndexesAgree == EntriesAreIndexed(slab.space)

\* Host memory: a block lies in one initialized segment, before the write pointer
\* if that is where code is emitted, and overlaps no other block, recycled
\* segments included.
CodeMemoryIsSound ==
    /\ BlocksAreDisjoint(slab.space)
    /\ \A p \in DOMAIN slab.space.infos :
        LET i == CodeSegmentIndex(p)
        IN  /\ i \in slab.segments.initialized
            /\ p + slab.space.infos[p].size =<
                (IF i = slab.segments.current THEN slab.space.ptr ELSE SegmentEnd(i))

\* code_cache_used: live_allocated_code_bytes is the sum of the segments' used
\* bytes, the write pointer is where the current segment's used bytes end unless
\* emit has thrown, and a segment that is not initialized holds nothing.
SegmentAccountingIsExact ==
    LET sg == slab.segments
    IN  /\ sg.live = MapThenSumSet(LAMBDA i : sg.used[i], Segment)
        /\ EmitMayThrow \/ slab.space.ptr = SegmentBegin(sg.current) + sg.used[sg.current]
        /\ sg.current \in sg.initialized
        /\ \A i \in Segment \ sg.initialized : sg.used[i] = 0

\* Slots of code that is already in the cache are patched only while no executor
\* is in native code (relinks_are_quiescent, finish_pending_direct_link_publication).
PatchedBlocks ==
    {p \in DOMAIN slab.space.infos \cap DOMAIN slab'.space.infos :
        slab.space.infos[p].link # slab'.space.infos[p].link}
CodePatchedOnlyWhenQuiescent ==
    [][SharedMode /\ PatchedBlocks # {} => \A e \in Executor : phase[e] # "native"]_vars

\* publish_generation: the generation moves one step at a time and only at a
\* boundary where no registered executor is active, and so does any removal of
\* code from a cache without fastmem.
RetirementOnlyAtBoundary ==
    [][ \/ slab'.current_generation # slab.current_generation
        \/ ~Fastmem /\ \E l \in Location : slab.space.entries[l] \notin {NullPtr, slab'.space.entries[l]}
        => /\ slab'.active = {}
           /\ slab'.current_generation \in {slab.current_generation, slab.current_generation + 1}]_vars

\* The pending clear or the pending ranges will remove code translated from cover.
Doomed(s, cover) ==
    \/ s.clear_pending /\ s.pending_transition = "ClearAll"
    \/ s.pending_ranges \cap cover # {}

\* Whatever else is requested, recycled or emitted in between, and whoever leaves,
\* code that a pending clear or range is going to remove stays so until it is
\* removed (request_generation_transition, finish_pending_invalidation).
PendingRemovalsAreKept ==
    [][\A p \in Current(slab) \cap Current(slab') :
        Doomed(slab, slab.space.infos[p].cover) => Doomed(slab', slab'.space.infos[p].cover)]_vars

\* recycle_code_segment gives up the code of the segment it moves to and no other,
\* and that is never the segment being filled, however long ago that was touched:
\* short of a full clear, a recycle keeps the newest code.
RecyclingSparesNewCode ==
    [][\A p \in DOMAIN slab.space.infos \ DOMAIN slab'.space.infos :
        \/ DOMAIN slab'.space.infos = {} /\ slab'.segments = ResetCodeSegments
        \/ /\ CodeSegmentIndex(p) = slab'.segments.current
           /\ CodeSegmentIndex(p) # slab.segments.current]_vars
=============================================================================
