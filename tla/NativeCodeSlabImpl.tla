------------------------- MODULE NativeCodeSlabImpl -------------------------
(***************************************************************************)
(* NativeCodeSlab::Impl (src/umbra/backend/arm64/a32_interface.cpp, lines  *)
(* 108-705).  Every entry point of the slab is one critical section of its *)
(* mutex, so each is one function on the record of the fields of Impl.     *)
(* NativeCodeSlab and A32Jit apply these functions in their actions.       *)
(*                                                                         *)
(* The slab never retires code while an executor is inside it.  A clear, a *)
(* recycle or a range invalidation that finds an executor active stays     *)
(* pending, halts the active executors and is finished by the last one to  *)
(* leave; nobody may enter, find or emit a block meanwhile.                *)
(*                                                                         *)
(* An executor's halt_reason is a field of its A32JitState; it is kept     *)
(* here because the slab writes it.                                        *)
(***************************************************************************)
EXTENDS AddressSpace, CodeSegments

CONSTANTS
    Executor,           \* the A32JitStates that may be registered
    Resident,           \* those of Jits that exist from the start and are never destroyed
    SharedMode,         \* shared_mode
    UserHaltReason      \* the halt reasons that Jit::HaltExecution is called with

ASSUME SlabAssumption ==
    /\ IsFiniteSet(Executor)
    /\ Resident \subseteq Executor
    /\ SharedMode \in BOOLEAN
    \* initialize refuses a shared slab with a fastmem_pointer
    /\ ~(SharedMode /\ Fastmem)

HaltReason == {"CacheInvalidation", "Step"} \cup UserHaltReason
GenerationTransitionKind == {"RecycleSegment", "ClearAll"}

\* return_from_run_code: the prelude address that GetBasicBlock answers when it
\* has no block
ReturnFromRunCodeAddress == 1

-----------------------------------------------------------------------------
(* The slab's functions.  s is a slab record.                              *)

InitialSlab ==
    [space |-> EmptySpace(SegmentBegin(0)),
     segments |-> ResetCodeSegments,
     registered |-> Resident,
     active |-> {},
     generation |-> [e \in Executor |-> 0],
     active_executions |-> 0,
     halt_reason |-> [e \in Executor |-> {}],
     current_generation |-> 1,
     pending_generation |-> 1,
     clear_pending |-> FALSE,
     pending_transition |-> "ClearAll",
     pending_ranges |-> {}]

Pending(s) == s.clear_pending \/ s.pending_ranges # {}

\* The code that find_block can answer
Current(s) == {s.space.entries[l] : l \in Location} \ {NullPtr}

Touch(s, entrypoint) == [s EXCEPT !.segments = TouchCodeSegment(@, entrypoint)]

\* find_block succeeds
Findable(s, l, expected_generation) ==
    /\ ~Pending(s)
    /\ expected_generation = s.current_generation
    /\ Get(s.space, l) # NullPtr

\* Mutant: the caller counts itself even when it is not executing.
QuiescentWithOneExecutor(s, caller_executing) == SharedMode => s.active_executions =< 1

RelinksAreQuiescent(s, caller_executing) ==
    SharedMode => s.active_executions = (IF caller_executing THEN 1 ELSE 0)

\* emit returns a descriptor, not {}
Emittable(s, expected_generation) ==
    ~Pending(s) /\ expected_generation = s.current_generation

EmitNew(s, l, cover, size, caller_executing) ==
    LET quiescent == RelinksAreQuiescent(s, caller_executing)
        emitted == EmitBlock(s.space, l, cover, size, ~quiescent)
        space == IF quiescent THEN PublishPendingBlockRelinks(emitted) ELSE emitted
    IN  [s EXCEPT
            !.space = space,
            !.segments = TouchCodeSegment(UpdateActiveSegmentUsage(@, space.ptr), s.space.ptr)]

\* An exception leaves emit after the code is published: the segment's usage is
\* not updated and the block is not returned.
EmitAbandoned(s, l, cover, size, caller_executing) ==
    [EmitNew(s, l, cover, size, caller_executing) EXCEPT !.segments = s.segments]

EmitToSlab(s, l, cover, size, expected_generation, caller_executing) ==
    IF ~Emittable(s, expected_generation) THEN s
    ELSE IF Get(s.space, l) # NullPtr THEN Touch(s, Get(s.space, l))
    ELSE EmitNew(s, l, cover, size, caller_executing)

EmittedEntrypoint(s, l, expected_generation) ==
    IF ~Emittable(s, expected_generation) THEN NullPtr
    ELSE IF Get(s.space, l) # NullPtr THEN Get(s.space, l)
    ELSE s.space.ptr

RegisterExecutor(s, e) == [s EXCEPT !.registered = @ \cup {e}]

UnregisterExecutor(s, e) ==
    [s EXCEPT !.registered = @ \ {e}, !.generation[e] = 0]

FinishPendingDirectLinkPublication(s) ==
    IF s.active_executions # 0
    THEN s
    ELSE [s EXCEPT !.space = PublishPendingBlockRelinks(@)]

\* publish_generation; published_generation is stored in the same section
PublishGeneration(s) == [s EXCEPT !.current_generation = s.pending_generation]

FinishClearAll(s) ==
    PublishGeneration(
        [s EXCEPT !.space = ClearSpace(@, SegmentBegin(0)),
                  !.segments = ResetCodeSegments])

FinishRecycleSegment(s) ==
    LET space == InvalidateCacheRanges(s.space, s.pending_ranges)
        victim == SelectRecycleSegment(s.segments)
        begin == SegmentBegin(victim)
        end == SegmentEnd(victim)
        recycled ==
            [s EXCEPT
                !.space = [RetireCodeRangeAndRanges(space, begin, end) EXCEPT !.ptr = begin],
                !.segments = RecycleCodeSegment(@, victim)]
    IN  IF RetiredLocations(space, begin, end) # {}
        THEN PublishGeneration(recycled)
        ELSE recycled

\* Mutant: finished although executors are active.
FinishWhileActive(s) ==
    IF ~Pending(s)
    THEN s
    ELSE [(IF ~s.clear_pending
           THEN [s EXCEPT !.space = InvalidateCacheRanges(@, s.pending_ranges)]
           ELSE IF s.pending_transition = "ClearAll"
           THEN FinishClearAll(s)
           ELSE FinishRecycleSegment(s))
          EXCEPT !.pending_ranges = {}, !.clear_pending = FALSE]

FinishPendingInvalidation(s) ==
    IF s.active_executions # 0 \/ ~Pending(s)
    THEN s
    ELSE [(IF ~s.clear_pending
           THEN [s EXCEPT !.space = InvalidateCacheRanges(@, s.pending_ranges)]
           ELSE IF s.pending_transition = "ClearAll"
           THEN FinishClearAll(s)
           ELSE FinishRecycleSegment(s))
          EXCEPT !.pending_ranges = {}, !.clear_pending = FALSE]

Finish(s, finish) == IF finish THEN FinishPendingInvalidation(s) ELSE s

\* Mutant: nobody is told.
SignalNobody(s) == s

SignalActiveExecutors(s) ==
    [s EXCEPT !.halt_reason =
        [e \in Executor |-> IF e \in s.active THEN @[e] \cup {"CacheInvalidation"} ELSE @[e]]]

\* Mutant: a recycle takes over a pending ClearAll.
RequestLastTransition(s, kind, finish) ==
    Finish(SignalActiveExecutors(
        [s EXCEPT
            !.clear_pending = TRUE,
            !.pending_generation = IF s.clear_pending THEN @ ELSE s.current_generation + 1,
            !.pending_transition = kind,
            !.pending_ranges = IF kind = "ClearAll" THEN {} ELSE @]),
        finish)

\* A ClearAll takes over a pending recycle and the pending ranges; a recycle
\* joins whatever is already pending.
RequestGenerationTransition(s, kind, finish) ==
    Finish(SignalActiveExecutors(
        [s EXCEPT
            !.clear_pending = TRUE,
            !.pending_generation = IF s.clear_pending THEN @ ELSE s.current_generation + 1,
            !.pending_transition = IF s.clear_pending /\ kind # "ClearAll" THEN @ ELSE kind,
            !.pending_ranges = IF kind = "ClearAll" THEN {} ELSE @]),
        finish)

RequestRangeTransition(s, start_address, length, finish) ==
    IF length = 0 \/ (s.clear_pending /\ s.pending_transition = "ClearAll")
    THEN s
    ELSE Finish(SignalActiveExecutors(
            [s EXCEPT !.pending_ranges = @ \cup AddressRange(start_address, length)]),
            finish)

ServicePendingInvalidation(s) ==
    FinishPendingDirectLinkPublication(FinishPendingInvalidation(s))

EnterExecution(s, e) ==
    [FinishPendingDirectLinkPublication(s) EXCEPT
        !.active = @ \cup {e},
        !.generation[e] = s.current_generation,
        !.active_executions = @ + 1]

\* enter_execution waits for this; it throws unless EnterAllowed
EnterReady(s) == ~Pending(s)
EnterAllowed(s, e) == e \in s.registered /\ e \notin s.active

\* leave_execution throws unless this holds
LeaveAllowed(s, e, generation) ==
    /\ e \in s.registered /\ e \in s.active
    /\ s.generation[e] = generation
    /\ generation = s.current_generation
    /\ s.active_executions # 0

\* Mutant: the active flag is cleared and the count is not.
LeaveUncounted(s, e) == ServicePendingInvalidation([s EXCEPT !.active = @ \ {e}])

\* Mutant: what is pending is not finished by the last one to leave.
LeaveUnserved(s, e) ==
    [s EXCEPT !.active = @ \ {e}, !.active_executions = @ - 1]

LeaveExecution(s, e) ==
    ServicePendingInvalidation(
        [s EXCEPT !.active = @ \ {e}, !.active_executions = @ - 1])

-----------------------------------------------------------------------------
(* What the fields of Impl promise, as predicates on the record.           *)

IsControl(s) ==
    /\ DOMAIN s = DOMAIN InitialSlab
    /\ s.registered \in SUBSET Executor
    /\ s.active \in SUBSET Executor
    /\ s.generation \in [Executor -> Nat]
    /\ s.active_executions \in Nat
    /\ s.halt_reason \in [Executor -> SUBSET HaltReason]
    /\ s.current_generation \in Nat
    /\ s.pending_generation \in Nat
    /\ s.clear_pending \in BOOLEAN
    /\ s.pending_transition \in GenerationTransitionKind
    /\ s.pending_ranges \in SUBSET GuestAddress

IsSlab(s) ==
    /\ IsControl(s)
    /\ IsSpace(s.space)
    /\ s.segments \in SegmentsType

\* The executor table: active_executions counts the active flags, an executor is
\* active exactly from enter_execution to leave_execution, only registered
\* executors are active, and the generation they entered with is still current.
ExecutionAccounting(s) ==
    /\ s.active \subseteq s.registered
    /\ s.active_executions = Cardinality(s.active)
    /\ \A e \in s.active : s.generation[e] = s.current_generation
=============================================================================
