------------------------------- MODULE A32Jit -------------------------------
(***************************************************************************)
(* A32::Jit (src/umbra/backend/arm64/a32_interface.cpp, lines 821-1333):   *)
(* Jits that share one NativeCodeSlab, each run by one thread, while other *)
(* threads (or callbacks) clear, invalidate, reset and halt them.          *)
(*                                                                         *)
(* A thread takes one step per critical section or access to shared state. *)
(* flags[j] holds the fields of Jit::Impl behind invalidation_mutex,       *)
(* although two functions write them without it; thread[j] holds the call  *)
(* in progress with its locals; slab, phase and ptr are those of           *)
(* NativeCodeSlab, whose steps the Jit drives (phase[j] # "out" is         *)
(* is_executing).                                                          *)
(*                                                                         *)
(* outdated and the field stale are history variables: the code that a     *)
(* request on the Jit has asked to be gone, and the Jits whose requests    *)
(* came after a thread translated the block it is about to emit.           *)
(***************************************************************************)
EXTENDS NativeCodeSlabImpl, FiniteSetsExt

CONSTANTS
    Operation,      \* the calls made
    Provided,       \* the answers of the portable IR demand provider
    Margin,         \* MINIMUM_REMAINING_CODESIZE
    MaxCalls,       \* bound on the number of calls and of failures
    ReturnStackBuffer, EmitMayThrow, MaxGeneration

ASSUME JitAssumption ==
    /\ Operation \subseteq {"Run", "Step", "Precompile", "PrecompileWithResult",
                            "GeneratePortableIR", "ClearCache", "InvalidateCacheRange", "Reset",
                            "HaltExecution", "ClearHalt"}
    /\ Provided \subseteq {"nothing", "matching", "mismatched"}
    /\ MaxCalls \in Nat
    \* every thread that has passed the space check can emit one block
    /\ \A size \in BlockSize : Cardinality(Executor) * size =< Margin

VARIABLES slab, phase, ptr, rsb, flags, thread, outdated, calls

Slab == INSTANCE NativeCodeSlab

slabVars == <<slab, phase, ptr, rsb>>
vars == <<slab, phase, ptr, rsb, flags, thread, outdated, calls>>

Jit == Executor

NoFlags == [entire |-> FALSE, recycle |-> FALSE, ranges |-> {}]

Idle ==
    [at |-> "idle", call |-> "none", then |-> "idle",
     loc |-> NullPtr, generation |-> 0, cover |-> {}, stale |-> {},
     recycle |-> FALSE, ranges |-> {},
     artifact |-> "nothing", completed |-> FALSE, owed |-> 0]

Init ==
    /\ Slab!Init
    /\ flags = [j \in Jit |-> NoFlags]
    /\ thread = [j \in Jit |-> Idle]
    /\ outdated = [j \in Jit |-> {}]
    /\ calls = 0

-----------------------------------------------------------------------------
\* The thread of j goes on as t says; a finished call leaves no locals.
Goes(j, t) ==
    thread' = [thread EXCEPT ![j] = IF t.at = "idle" THEN [Idle EXCEPT !.owed = t.owed] ELSE t]

\* The rest of a step on j's own thread: it goes on as t says.
Continues(j, t) ==
    /\ Goes(j, t)
    /\ outdated' = [k \in Jit |-> outdated[k] \cap Current(slab')]
    /\ UNCHANGED <<flags, calls>>

SlabBecomes(s) == slab' = s /\ UNCHANGED <<phase, ptr, rsb>>

Halt(s, j, hr) == [s EXCEPT !.halt_reason[j] = @ \cup {hr}]
Invalidated(j) == "CacheInvalidation" \in slab.halt_reason[j]

\* PerformRequestedCacheInvalidation(hr) is called with hr.CacheInvalidation = hr.
Performs(t, hr, next) ==
    IF hr THEN [t EXCEPT !.at = "perform", !.then = next] ELSE [t EXCEPT !.at = next]

Spends == calls < MaxCalls /\ calls' = calls + 1

-----------------------------------------------------------------------------
(* Calls on j's own thread.  Each begins with PerformRequestedCache-       *)
(* Invalidation of the halt reason it loads.                               *)

RunOrStep(j, call) ==
    /\ call \in Operation
    /\ thread[j].at = "idle"
    /\ Spends
    /\ Goes(j, Performs([Idle EXCEPT !.call = call], Invalidated(j), "enter"))
    /\ UNCHANGED <<slabVars, flags, outdated>>

Precompile(j, l) ==
    /\ "Precompile" \in Operation
    /\ thread[j].at = "idle"
    /\ Spends
    /\ Goes(j, Performs([Idle EXCEPT !.call = "Precompile", !.loc = l], Invalidated(j), "generation"))
    /\ UNCHANGED <<slabVars, flags, outdated>>

\* The block is translated for PortableIRGenerated and not emitted.
GeneratePortableIR(j) ==
    /\ "GeneratePortableIR" \in Operation
    /\ thread[j].at = "idle"
    /\ Spends
    /\ Goes(j, Performs([Idle EXCEPT !.call = "GeneratePortableIR"], Invalidated(j), "idle"))
    /\ UNCHANGED <<slabVars, flags, outdated>>

\* The block may have a terminal that cannot be emitted.
PrecompileWithResult(j, l, cover, emittable) ==
    /\ "PrecompileWithResult" \in Operation
    /\ thread[j].at = "idle"
    /\ Spends
    /\ Goes(j, Performs([Idle EXCEPT !.call = "PrecompileWithResult", !.loc = l, !.cover = cover],
                        Invalidated(j), IF emittable THEN "generation" ELSE "request"))
    /\ UNCHANGED <<slabVars, flags, outdated>>

-----------------------------------------------------------------------------
(* PerformRequestedCacheInvalidation.  invalidation_mutex is held from     *)
(* "performing" on, so ClearCache and InvalidateCacheRange wait.           *)

\* Mutant: the mutex is not taken.
MutexIgnored(j) == TRUE

MutexIsFree(j) == thread[j].at \notin {"performing", "performed"}

ClearInvalidation(s, j) == [s EXCEPT !.halt_reason[j] = @ \ {"CacheInvalidation"}]

Perform(j) ==
    LET t == thread[j]
        f == flags[j]
    IN  /\ t.at = "perform"
        /\ SlabBecomes(ClearInvalidation(slab, j))
        /\ Continues(j, IF ~f.entire /\ f.ranges = {}
                        THEN [t EXCEPT !.at = t.then]
                        ELSE [t EXCEPT !.at = "performing", !.ranges = f.ranges])

PerformEntire(j) ==
    /\ thread[j].at = "performing"
    /\ flags[j].entire
    /\ SlabBecomes(RequestGenerationTransition(
            slab, IF flags[j].recycle THEN "RecycleSegment" ELSE "ClearAll", TRUE))
    /\ Continues(j, [thread[j] EXCEPT !.at = "performed", !.ranges = {}])

\* The lowest interval of an interval_set
LowestInterval(addresses) == {a \in addresses : (Min(addresses) .. a) \subseteq addresses}

PerformRange(j) ==
    LET range == LowestInterval(thread[j].ranges)
        rest == thread[j].ranges \ range
    IN  /\ thread[j].at = "performing"
        /\ ~flags[j].entire
        /\ SlabBecomes(RequestRangeTransition(slab, Min(range), Cardinality(range), TRUE))
        /\ Continues(j, [thread[j] EXCEPT
                            !.at = IF rest = {} THEN "performed" ELSE @, !.ranges = rest])

Performed(j) ==
    /\ thread[j].at = "performed"
    /\ flags' = [flags EXCEPT ![j] = NoFlags]
    /\ SlabBecomes(ClearInvalidation(slab, j))
    /\ Goes(j, [thread[j] EXCEPT !.at = thread[j].then])
    /\ UNCHANGED <<outdated, calls>>

-----------------------------------------------------------------------------
(* GetBasicBlock and PrecompileWithResult, from the generation they hold   *)
(* to the block they answer.                                               *)

\* enter_execution; the guest is at any location
Enter(j) ==
    /\ thread[j].at = "enter"
    /\ Slab!Enter(j)
    /\ \E l \in Location :
        Continues(j, [thread[j] EXCEPT
                        !.at = "lookup", !.loc = l, !.generation = slab.current_generation])

\* NativeCodeSlab::generation() waits like enter_execution.
Generation(j) ==
    /\ thread[j].at \in {"generation", "regeneration"}
    /\ EnterReady(slab)
    /\ UNCHANGED slabVars
    /\ Continues(j, [thread[j] EXCEPT
                        !.at = IF @ = "generation" THEN "lookup" ELSE "emit",
                        !.generation = slab.current_generation])

\* The lookup answers p: to the caller of a precompilation, or to run_code or
\* the dispatcher.
Answers(j, p) ==
    IF phase[j] = "out"
    THEN UNCHANGED <<phase, ptr, rsb>>
    ELSE Slab!LookupAnswers(j, p)

Answered(j, t) == [t EXCEPT !.at = IF phase[j] = "out" THEN "idle" ELSE "code",
                            !.loc = NullPtr, !.cover = {}, !.stale = {},
                            !.artifact = "nothing", !.completed = FALSE]

\* The provider hands an artifact off: a call of the completion is owed.
HandOff(t, artifact, cover) ==
    [t EXCEPT !.artifact = artifact, !.cover = cover, !.completed = FALSE, !.owed = @ + 1]

\* complete_portable_artifact; "completed" is portable_completion_called
Complete(t) ==
    IF t.artifact = "nothing" \/ t.completed
    THEN t
    ELSE [t EXCEPT !.completed = TRUE, !.owed = @ - 1]

FindBlock(j) ==
    LET t == thread[j]
    IN  /\ t.at = "lookup"
        /\ Findable(slab, t.loc, t.generation)
        /\ slab' = Touch(slab, Get(slab.space, t.loc))
        /\ Answers(j, Get(slab.space, t.loc))
        /\ Continues(j, Answered(j, t))

\* find_block fails.  GetBasicBlock asks the demand provider; an artifact that
\* does not match is completed as failed and put aside.
MissBlock(j) ==
    LET t == thread[j]
    IN  /\ t.at = "lookup"
        /\ ~Findable(slab, t.loc, t.generation)
        /\ UNCHANGED slabVars
        /\ \/ /\ t.call = "PrecompileWithResult"
              /\ Continues(j, [t EXCEPT !.at = "space"])
           \/ /\ t.call # "PrecompileWithResult"
              /\ "nothing" \in Provided
              /\ Continues(j, [t EXCEPT !.at = "space"])
           \/ /\ t.call # "PrecompileWithResult"
              /\ "matching" \in Provided
              /\ \E cover \in Covers[t.loc] :
                    Continues(j, [HandOff(t, "matching", cover) EXCEPT !.at = "space"])
           \/ /\ t.call # "PrecompileWithResult"
              /\ "mismatched" \in Provided
              /\ Continues(j, [Complete(HandOff(t, "mismatched", {})) EXCEPT !.at = "space"])

\* The block to emit comes from the provider or the caller.
IsForeign(t) == t.call = "PrecompileWithResult" \/ t.artifact = "matching"

HasSpace(s) == ActiveSegmentSpaceRemaining(s.segments, s.space.ptr) >= Margin

SpaceSuffices(j) ==
    /\ thread[j].at = "space"
    /\ HasSpace(slab)
    /\ UNCHANGED slabVars
    /\ Continues(j, [thread[j] EXCEPT !.at =
            IF IsForeign(thread[j]) THEN "emit" ELSE "translate"])

\* GetBasicBlock: request_capacity_recycle
SpaceRunsOut(j) ==
    /\ thread[j].at = "space"
    /\ thread[j].call # "PrecompileWithResult"
    /\ ~HasSpace(slab)
    /\ UNCHANGED slabVars
    /\ Continues(j, [Complete(thread[j]) EXCEPT !.at = "request", !.recycle = TRUE])

\* PrecompileWithResult writes the flags and performs at once.
SpaceRunsOutForResult(j) ==
    /\ thread[j].at = "space"
    /\ thread[j].call = "PrecompileWithResult"
    /\ ~HasSpace(slab)
    /\ flags' = [flags EXCEPT ![j].recycle = TRUE, ![j].entire = TRUE]
    /\ Goes(j, [thread[j] EXCEPT !.at = "perform", !.then = "regeneration"])
    /\ UNCHANGED <<slabVars, outdated, calls>>

\* TranslateBlock reads the guest code.
TranslateBlock(j) ==
    /\ thread[j].at = "translate"
    /\ UNCHANGED slabVars
    /\ \E cover \in Covers[thread[j].loc] :
        Continues(j, [thread[j] EXCEPT !.at = "emit", !.cover = cover])

\* Mutant: the caller is always taken for an executing one.
EmitAsExecuting(j, size) ==
    LET t == thread[j]
        p == EmittedEntrypoint(slab, t.loc, t.generation)
    IN  /\ t.at = "emit"
        /\ slab' = EmitToSlab(slab, t.loc, t.cover, size, t.generation, TRUE)
        /\ Continues(j, Answered(j, Complete(t)))
        /\ Answers(j, IF p = NullPtr THEN ReturnFromRunCodeAddress ELSE p)

\* EmitToSlab.  If emit answers {}, a translated block is dropped and the lookup
\* gives up; a block of a provider or a caller makes the Jit clear the cache.
EmitBlockToSlab(j, size) ==
    LET t == thread[j]
        p == EmittedEntrypoint(slab, t.loc, t.generation)
        new == p # NullPtr /\ Get(slab.space, t.loc) = NullPtr
    IN  /\ t.at = "emit"
        /\ slab' = EmitToSlab(slab, t.loc, t.cover, size, t.generation, phase[j] # "out")
        /\ outdated' = [k \in Jit |-> (outdated[k] \cap Current(slab'))
                                        \cup (IF new /\ k \in t.stale THEN {p} ELSE {})]
        /\ IF p = NullPtr /\ IsForeign(t)
           THEN /\ Goes(j, [Complete(t) EXCEPT !.at = "request", !.recycle = FALSE])
                /\ UNCHANGED <<phase, ptr, rsb>>
           ELSE /\ Goes(j, Answered(j, Complete(t)))
                /\ Answers(j, IF p = NullPtr THEN ReturnFromRunCodeAddress ELSE p)
        /\ UNCHANGED <<flags, calls>>

\* Mutant: the handlers forget the completion.
AfterFailureSilently(t, thrown, executing) ==
    IF IsForeign(t) THEN [t EXCEPT !.at = "request", !.recycle = FALSE]
    ELSE [t EXCEPT !.at = IF ~executing THEN "idle" ELSE IF thrown THEN "unwind" ELSE "give up"]

\* What comes after a failed emission: a block of a provider or a caller is
\* completed as failed and the cache is cleared; for a translated block emit's {}
\* makes the lookup give up, and an exception reaches the caller, leaving Run or
\* Step through the scope exit.
AfterFailure(t, thrown, executing) ==
    IF IsForeign(t) THEN [Complete(t) EXCEPT !.at = "request", !.recycle = FALSE]
    ELSE [t EXCEPT !.at = IF ~executing THEN "idle" ELSE IF thrown THEN "unwind" ELSE "give up"]

\* An exception that reached generated code would end the process.
MayThrow(j) == IsForeign(thread[j]) \/ phase[j] # "dispatch"

\* ensure_memory_committed throws, or emit throws or answers {} before any code.
EmitFailsBefore(j, thrown) ==
    /\ EmitMayThrow
    /\ thread[j].at = "emit"
    /\ thrown => MayThrow(j)
    /\ Spends
    /\ Goes(j, AfterFailure(thread[j], thrown, phase[j] # "out"))
    /\ UNCHANGED <<slabVars, flags, outdated>>

\* emit throws with the block already published.
EmitFailsAfter(j, size) ==
    LET t == thread[j]
    IN  /\ EmitMayThrow
        /\ t.at = "emit"
        /\ MayThrow(j)
        /\ Emittable(slab, t.generation)
        /\ Get(slab.space, t.loc) = NullPtr
        /\ Spends
        /\ SlabBecomes(EmitAbandoned(slab, t.loc, t.cover, size, phase[j] # "out"))
        /\ outdated' = [k \in Jit |-> outdated[k] \cup (IF k \in t.stale THEN {slab.space.ptr} ELSE {})]
        /\ Goes(j, AfterFailure(t, TRUE, phase[j] # "out"))
        /\ UNCHANGED flags

Unwind(j) ==
    /\ thread[j].at = "unwind"
    /\ Slab!Unwind(j)
    /\ Continues(j, [Answered(j, thread[j]) EXCEPT !.at = "leave"])

-----------------------------------------------------------------------------
(* request_entire_cache_invalidation(recycle), which takes no lock: it     *)
(* reads the flags in one step and writes them in another.                 *)

Request(j) ==
    LET t == thread[j]
    IN  /\ t.at = "request"
        /\ UNCHANGED slabVars
        /\ Continues(j, [t EXCEPT !.at = "requested",
                            !.recycle = (flags[j].entire => flags[j].recycle) /\ t.recycle])

\* Not executing, it performs at once; executing, the lookup gives up.
Requested(j) ==
    /\ thread[j].at = "requested"
    /\ flags' = [flags EXCEPT ![j].recycle = thread[j].recycle, ![j].entire = TRUE]
    /\ SlabBecomes(Halt(slab, j, "CacheInvalidation"))
    /\ Goes(j, IF phase[j] = "out"
               THEN [thread[j] EXCEPT !.at = "perform", !.then = "idle"]
               ELSE [thread[j] EXCEPT !.at = "give up"])
    /\ UNCHANGED <<outdated, calls>>

GiveUp(j) ==
    /\ thread[j].at = "give up"
    /\ Slab!GiveUp(j)
    /\ Continues(j, Answered(j, [thread[j] EXCEPT !.recycle = FALSE]))

-----------------------------------------------------------------------------
(* Generated code, and the way out of Run and Step.                        *)

StartCode(j) ==
    /\ thread[j].at = "code"
    /\ IF thread[j].call = "Run" THEN Slab!RunCode(j) ELSE Slab!StepCode(j)
    /\ Continues(j, thread[j])

NativeCode(j) ==
    /\ thread[j].at = "code"
    /\ Slab!NativeStep(j)
    /\ phase'[j] # "dispatch"
    /\ Continues(j, thread[j])

\* GetCurrentBlockThunk looks up with active_generation.
Dispatch(j) ==
    /\ thread[j].at = "code"
    /\ Slab!ReturnToDispatcher(j)
    /\ \E l \in Location : Continues(j, [thread[j] EXCEPT !.at = "lookup", !.loc = l])

ReturnFromRunCode(j) ==
    /\ thread[j].at = "code"
    /\ Slab!ReturnFromRunCode(j)
    /\ Continues(j, Performs(thread[j], Invalidated(j), "leave"))

Leave(j) ==
    /\ thread[j].at = "leave"
    /\ Slab!Leave(j)
    /\ Continues(j, [thread[j] EXCEPT !.at = "idle"])

-----------------------------------------------------------------------------
(* Calls from any thread or callback.                                      *)

\* What a request on j for the guest addresses makes outdated.
Outdates(j, addresses) ==
    /\ outdated' = [outdated EXCEPT ![j] = @ \cup
            {p \in Current(slab) : slab.space.infos[p].cover \cap addresses # {}}]
    /\ thread' = [k \in Jit |->
            IF /\ thread[k].at = "emit" /\ ~IsForeign(thread[k])
               /\ thread[k].cover \cap addresses # {}
            THEN [thread[k] EXCEPT !.stale = @ \cup {j}]
            ELSE thread[k]]

ClearCache(j) ==
    /\ "ClearCache" \in Operation
    /\ MutexIsFree(j)
    /\ Spends
    /\ flags' = [flags EXCEPT ![j].recycle = FALSE, ![j].entire = TRUE]
    /\ SlabBecomes(Halt(slab, j, "CacheInvalidation"))
    /\ Outdates(j, GuestAddress)

\* Mutant: the range is noted without HaltExecution.
InvalidateSilently(j, start_address, length) ==
    /\ "InvalidateCacheRange" \in Operation
    /\ MutexIsFree(j)
    /\ length # 0
    /\ Spends
    /\ flags' = [flags EXCEPT ![j].ranges = @ \cup AddressRange(start_address, length)]
    /\ SlabBecomes(slab)
    /\ Outdates(j, AddressRange(start_address, length))

InvalidateCacheRange(j, start_address, length) ==
    /\ "InvalidateCacheRange" \in Operation
    /\ MutexIsFree(j)
    /\ length # 0
    /\ Spends
    /\ flags' = [flags EXCEPT ![j].ranges = @ \cup AddressRange(start_address, length)]
    /\ SlabBecomes(Halt(slab, j, "CacheInvalidation"))
    /\ Outdates(j, AddressRange(start_address, length))

Reset(j) ==
    /\ "Reset" \in Operation
    /\ thread[j].at = "idle"
    /\ Spends
    /\ Slab!Reset(j)
    /\ UNCHANGED <<flags, thread, outdated>>

HaltExecution(j, hr) ==
    /\ "HaltExecution" \in Operation
    /\ Spends
    /\ Slab!HaltExecution(j, hr)
    /\ UNCHANGED <<flags, thread, outdated>>

ClearHalt(j, hr) ==
    /\ "ClearHalt" \in Operation
    /\ hr # "CacheInvalidation"
    /\ Spends
    /\ Slab!ClearHalt(j, hr)
    /\ UNCHANGED <<flags, thread, outdated>>

\* Every call has been made and has returned.
Finished ==
    /\ calls = MaxCalls
    /\ \A j \in Jit : thread[j].at = "idle"
    /\ UNCHANGED vars

-----------------------------------------------------------------------------
Call(j) ==
    \/ \E call \in {"Run", "Step"} : RunOrStep(j, call)
    \/ \E l \in Location : Precompile(j, l)
    \/ GeneratePortableIR(j)
    \/ \E l \in Location, emittable \in BOOLEAN :
            \E cover \in Covers[l] : PrecompileWithResult(j, l, cover, emittable)

Invalidation(j) == Perform(j) \/ PerformEntire(j) \/ PerformRange(j) \/ Performed(j)

GetBlock(j) ==
    \/ Generation(j)
    \/ FindBlock(j)
    \/ MissBlock(j)
    \/ SpaceSuffices(j)
    \/ SpaceRunsOut(j)
    \/ SpaceRunsOutForResult(j)
    \/ TranslateBlock(j)
    \/ \E size \in BlockSize : EmitBlockToSlab(j, size) \/ EmitFailsAfter(j, size)
    \/ \E thrown \in BOOLEAN : EmitFailsBefore(j, thrown)
    \/ Unwind(j)
    \/ Request(j)
    \/ Requested(j)
    \/ GiveUp(j)

OtherThreads(j) ==
    \/ ClearCache(j)
    \/ \E start \in GuestAddress, length \in 0 .. MaxAddress + 1 :
            InvalidateCacheRange(j, start, length)
    \/ Reset(j)
    \/ \E hr \in UserHaltReason : HaltExecution(j, hr) \/ ClearHalt(j, hr)

Next ==
    \/ \E j \in Jit :
        \/ Call(j)
        \/ Invalidation(j)
        \/ Enter(j)
        \/ GetBlock(j)
        \/ StartCode(j)
        \/ NativeCode(j)
        \/ Dispatch(j)
        \/ ReturnFromRunCode(j)
        \/ Leave(j)
        \/ OtherThreads(j)
    \/ Finished

Spec == Init /\ [][Next]_vars

\* A thread inside a call goes on, and generated code polls the halt reason; the
\* guest need not return by itself, and enter_execution and generation() may be
\* kept waiting.
Fairness ==
    \A j \in Jit :
        /\ WF_vars(Invalidation(j))
        /\ WF_vars(Enter(j))
        /\ WF_vars(GetBlock(j))
        /\ WF_vars(StartCode(j))
        /\ WF_vars(NativeCode(j) /\ Slab!PollHalt(j))
        /\ WF_vars(ReturnFromRunCode(j))
        /\ WF_vars(Leave(j))

FairSpec == Spec /\ Fairness

-----------------------------------------------------------------------------
(* Properties                                                              *)

Position ==
    {"idle", "perform", "performing", "performed", "enter", "generation", "regeneration",
     "lookup", "space", "translate", "emit", "request", "requested", "give up", "unwind",
     "code", "leave"}

\* The types of the Jits' flags and of the calls in progress.
TypeOK ==
    /\ Slab!TypeOK
    /\ flags \in [Jit -> [entire : BOOLEAN, recycle : BOOLEAN, ranges : SUBSET GuestAddress]]
    /\ thread \in [Jit ->
            [at : Position, then : Position,
             call : {"none", "Run", "Step", "Precompile", "PrecompileWithResult", "GeneratePortableIR"},
             loc : Location \cup {NullPtr}, generation : Nat,
             cover : SUBSET GuestAddress, stale : SUBSET Jit,
             recycle : BOOLEAN, ranges : SUBSET GuestAddress,
             artifact : {"nothing", "matching", "mismatched"}, completed : BOOLEAN, owed : Int]]
    /\ outdated \in [Jit -> SUBSET Nat]
    /\ calls \in 0 .. MaxCalls

\* The Jits use the slab as it expects: is_executing, the generations they hold
\* and the space checks made outside its mutex satisfy the contracts of
\* enter_execution, find_block, emit, run_code and leave_execution.
ImplementsSlab == Slab!Spec

\* What will still remove the code p: a request on j not yet performed, or one
\* that the slab has pending.
WillBeRemoved(j, p) ==
    LET cover == slab.space.infos[p].cover
    IN  \/ flags[j].entire /\ ~flags[j].recycle
        \/ flags[j].ranges \cap cover # {}
        \/ slab.clear_pending /\ slab.pending_transition = "ClearAll"
        \/ slab.pending_ranges \cap cover # {}

\* ClearCache "Clears the code cache of all compiled code" and
\* InvalidateCacheRange "Invalidate[s] the code cache at a range of addresses"
\* (interface/A32/a32.h): code translated before the request is either gone or
\* about to be removed; no other request, halt or recycle loses it.
RequestsAreKept ==
    \A j \in Jit : \A p \in outdated[j] : WillBeRemoved(j, p)

\* A Jit does not go on in code that a request on it has outdated: its halt
\* reason is set, so the next poll returns from Run.
RunsNoOutdatedCode ==
    \A j \in Jit : phase[j] = "native" /\ ptr[j] \in outdated[j] => Invalidated(j)

\* A request that is flagged is also signalled, or being performed: the next
\* PerformRequestedCacheInvalidation will not overlook it.
RequestsAreSignalled ==
    \A j \in Jit : flags[j].entire \/ flags[j].ranges # {} =>
        \/ Invalidated(j)
        \/ thread[j].at \in {"perform", "performing", "performed"}

\* Whoever waits in enter_execution or generation() for a pending transition
\* waits for an executor that will leave.
SomebodyFinishesPending == Pending(slab) => slab.active # {}

\* The completion callback is called exactly once for an artifact the provider
\* handed off, whatever happens to the block.
ArtifactsAreCompletedOnce ==
    \A j \in Jit :
        /\ thread[j].owed \in {0, 1}
        /\ thread[j].at \notin {"space", "emit"} => thread[j].owed = 0

\* A clear, recycle or range invalidation that the slab has pending is finished.
PendingFinishes == Pending(slab) ~> ~Pending(slab)

\* Run and Step return once a halt reason is set, also when every thread waits
\* for the cache to be cleared.
HaltedRunReturns ==
    \A j \in Jit : phase[j] # "out" /\ slab.halt_reason[j] # {} ~> phase[j] = "out"

\* A request made while its Jit executes is served although the guest never
\* returns by itself.
RequestsAreServed ==
    \A j \in Jit :
        phase[j] \in {"enter", "start", "native", "dispatch"} /\ outdated[j] # {}
            ~> outdated[j] = {}
=============================================================================
