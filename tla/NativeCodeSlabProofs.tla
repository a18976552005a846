------------------------ MODULE NativeCodeSlabProofs ------------------------
(***************************************************************************)
(* Proofs about NativeCodeSlab, for every set of executors, every guest    *)
(* program and every geometry of the code cache.                           *)
(***************************************************************************)
EXTENDS NativeCodeSlab, FiniteSetTheorems, TLAPS

-----------------------------------------------------------------------------
(* The control part: who is active, what is pending, who has been told.    *)

\* t differs from s in the address space and the segment table at most.
SameControl(s, t) ==
    /\ DOMAIN t = DOMAIN s
    /\ t.registered = s.registered
    /\ t.active = s.active
    /\ t.generation = s.generation
    /\ t.active_executions = s.active_executions
    /\ t.halt_reason = s.halt_reason
    /\ t.current_generation = s.current_generation
    /\ t.pending_generation = s.pending_generation
    /\ t.clear_pending = s.clear_pending
    /\ t.pending_transition = s.pending_transition
    /\ t.pending_ranges = s.pending_ranges

\* The executor table is the same in s and t.
SameExecutors(s, t) ==
    /\ t.registered = s.registered
    /\ t.active = s.active
    /\ t.generation = s.generation
    /\ t.active_executions = s.active_executions
    /\ t.halt_reason = s.halt_reason

\* t is s with the halt reasons halt.
HaltChanged(s, t, halt) ==
    /\ DOMAIN t = DOMAIN s
    /\ t.halt_reason = halt
    /\ t.registered = s.registered
    /\ t.active = s.active
    /\ t.generation = s.generation
    /\ t.active_executions = s.active_executions
    /\ t.current_generation = s.current_generation
    /\ t.pending_generation = s.pending_generation
    /\ t.clear_pending = s.clear_pending
    /\ t.pending_transition = s.pending_transition
    /\ t.pending_ranges = s.pending_ranges

\* touch_code_segment changes the clock of a segment and nothing else.
LEMMA TouchControl ==
    ASSUME NEW s, IsControl(s), NEW p
    PROVE  SameControl(s, Touch(s, p))
BY DEF IsControl, SameControl, Touch, InitialSlab

\* emit changes the address space and the segments and nothing else.
LEMMA EmitControl ==
    ASSUME NEW s, IsControl(s), NEW l, NEW cover, NEW size, NEW g, NEW c
    PROVE  /\ SameControl(s, EmitToSlab(s, l, cover, size, g, c))
           /\ SameControl(s, EmitAbandoned(s, l, cover, size, c))
<1>1. SameControl(s, s)
  BY DEF SameControl
<1>2. SameControl(s, EmitNew(s, l, cover, size, c))
  <2> DEFINE quiescent == RelinksAreQuiescent(s, c)
             emitted == EmitBlock(s.space, l, cover, size, ~quiescent)
             space == IF quiescent THEN PublishPendingBlockRelinks(emitted) ELSE emitted
             segments == TouchCodeSegment(UpdateActiveSegmentUsage(s.segments, space.ptr), s.space.ptr)
  <2>1. EmitNew(s, l, cover, size, c) = [s EXCEPT !.space = space, !.segments = segments]
    BY DEF EmitNew
  <2> HIDE DEF space, segments
  <2> QED
    BY <2>1 DEF SameControl, IsControl, InitialSlab
<1>3. SameControl(s, EmitAbandoned(s, l, cover, size, c))
  <2> DEFINE t == EmitNew(s, l, cover, size, c)
  <2>1. EmitAbandoned(s, l, cover, size, c) = [t EXCEPT !.segments = s.segments]
    BY DEF EmitAbandoned
  <2>2. SameControl(s, t)
    BY <1>2
  <2> HIDE DEF t
  <2> QED
    BY <2>1, <2>2 DEF SameControl, IsControl, InitialSlab
<1> QED
  BY <1>1, <1>2, <1>3, TouchControl DEF EmitToSlab

\* finish_pending_direct_link_publication patches code and nothing else.
LEMMA PublicationControl ==
    ASSUME NEW s, IsControl(s)
    PROVE  SameControl(s, FinishPendingDirectLinkPublication(s))
BY DEF IsControl, SameControl, FinishPendingDirectLinkPublication, InitialSlab

LEMMA SameControlType ==
    ASSUME NEW s, NEW t, IsControl(s), SameControl(s, t)
    PROVE  IsControl(t)
BY DEF IsControl, SameControl

\* finish_pending_invalidation does nothing while an executor is active, never
\* touches the executor table, and leaves nothing pending.
LEMMA FinishControl ==
    ASSUME NEW s, IsControl(s)
    PROVE  LET t == FinishPendingInvalidation(s)
           IN  /\ IsControl(t)
               /\ SameExecutors(s, t)
               /\ t = s \/ (s.active_executions = 0 /\ ~Pending(t))
<1> DEFINE t == FinishPendingInvalidation(s)
           done == [s EXCEPT !.pending_ranges = {}, !.clear_pending = FALSE]
<1>1. CASE s.active_executions # 0 \/ ~Pending(s)
  BY <1>1 DEF FinishPendingInvalidation, SameExecutors
<1>2. CASE s.active_executions = 0 /\ Pending(s)
  <2> DEFINE Ends(u) == [u EXCEPT !.pending_ranges = {}, !.clear_pending = FALSE]
             Result(u) == /\ IsControl(Ends(u))
                          /\ SameExecutors(s, Ends(u))
                          /\ ~Pending(Ends(u))
  <2>1. ASSUME NEW u, DOMAIN u = DOMAIN s, SameExecutors(s, u),
               u.current_generation \in {s.current_generation, s.pending_generation},
               u.pending_generation = s.pending_generation,
               u.pending_transition = s.pending_transition,
               u.pending_ranges = s.pending_ranges,
               u.clear_pending = s.clear_pending
        PROVE  Result(u)
    BY <2>1 DEF IsControl, SameExecutors, InitialSlab, Pending
  <2>2. ASSUME NEW sp, NEW sg
        PROVE  /\ Result([s EXCEPT !.space = sp])
               /\ Result([s EXCEPT !.space = sp, !.segments = sg])
               /\ Result(PublishGeneration([s EXCEPT !.space = sp, !.segments = sg]))
    <3> HIDE DEF Result
    <3>1. Result([s EXCEPT !.space = sp])
      BY <2>1 DEF IsControl, SameExecutors, InitialSlab
    <3>2. Result([s EXCEPT !.space = sp, !.segments = sg])
      BY <2>1, ZenonT(30) DEF IsControl, SameExecutors, InitialSlab
    <3>3. Result(PublishGeneration([s EXCEPT !.space = sp, !.segments = sg]))
      BY <2>1, ZenonT(30) DEF IsControl, SameExecutors, InitialSlab, PublishGeneration
    <3> QED
      BY <3>1, <3>2, <3>3
  <2>3. \E u : t = Ends(u) /\ Result(u)
    <3> HIDE DEF Result
    <3>1. CASE ~s.clear_pending
      BY <1>2, <2>2, <3>1, ZenonT(30) DEF FinishPendingInvalidation
    <3>2. CASE s.clear_pending /\ s.pending_transition = "ClearAll"
      BY <1>2, <2>2, <3>2, ZenonT(30) DEF FinishPendingInvalidation, FinishClearAll
    <3>3. CASE s.clear_pending /\ s.pending_transition # "ClearAll"
      <4>1. Result(FinishRecycleSegment(s))
        BY <2>2, ZenonT(30) DEF FinishRecycleSegment
      <4> QED
        BY <1>2, <3>3, <4>1, ZenonT(30) DEF FinishPendingInvalidation
    <3> QED
      BY <3>1, <3>2, <3>3, ZenonT(30)
  <2> QED
    BY <1>2, <2>3
<1> QED
  BY <1>1, <1>2 DEF IsControl

\* An active executor of s has been told to leave if something is pending.
Signalled(s) ==
    Pending(s) => \A e \in s.active : "CacheInvalidation" \in s.halt_reason[e]

LEMMA NobodyActive ==
    ASSUME NEW s, IsControl(s), ExecutionAccounting(s), s.active_executions = 0
    PROVE  s.active = {}
<1>1. IsFiniteSet(s.active)
  BY SlabAssumption, FS_Subset DEF IsControl, SlabAssumption
<1> QED
  BY <1>1, FS_EmptySet, ZenonT(30) DEF ExecutionAccounting

\* Finishing what is pending keeps the accounting: it happens only when nobody
\* is active, so nobody is left with an old generation.
LEMMA FinishAccounting ==
    ASSUME NEW s, IsControl(s), ExecutionAccounting(s)
    PROVE  LET t == FinishPendingInvalidation(s)
           IN  ExecutionAccounting(t) /\ (Signalled(s) => Signalled(t))
<1> DEFINE t == FinishPendingInvalidation(s)
<1>1. CASE t = s
  BY <1>1
<1>2. CASE s.active_executions = 0 /\ ~Pending(t) /\ SameExecutors(s, t)
  <2>1. s.active = {}
    BY <1>2, NobodyActive
  <2> HIDE DEF t
  <2>2. ExecutionAccounting(t) /\ Signalled(t)
    BY <1>2, <2>1, ZenonT(30) DEF ExecutionAccounting, SameExecutors, Signalled
  <2> QED
    BY <2>2 DEF t
<1> QED
  BY <1>1, <1>2, FinishControl

\* A request signals the active executors, then finishes if nobody is active.
LEMMA RequestControl ==
    ASSUME NEW s, IsControl(s), ExecutionAccounting(s), NEW finish
    PROVE  LET t == Finish(SignalActiveExecutors(s), finish)
           IN  /\ IsControl(t)
               /\ ExecutionAccounting(t)
               /\ Signalled(t)
               /\ t.active = s.active
               /\ \A e \in Executor : s.halt_reason[e] \subseteq t.halt_reason[e]
<1> DEFINE u == SignalActiveExecutors(s)
           t == Finish(u, finish)
<1>1. /\ IsControl(u)
      /\ ExecutionAccounting(u)
      /\ Signalled(u)
      /\ u.active = s.active
      /\ \A e \in Executor : s.halt_reason[e] \subseteq u.halt_reason[e]
  <2> DEFINE told == [e \in Executor |-> IF e \in s.active
                                         THEN s.halt_reason[e] \cup {"CacheInvalidation"}
                                         ELSE s.halt_reason[e]]
  <2>1. u = [s EXCEPT !.halt_reason = told]
    BY DEF SignalActiveExecutors
  <2>2. told \in [Executor -> SUBSET HaltReason]
    BY DEF IsControl, HaltReason
  <2>3. \A e \in Executor : /\ s.halt_reason[e] \subseteq told[e]
                            /\ e \in s.active => "CacheInvalidation" \in told[e]
    OBVIOUS
  <2> HIDE DEF u, told
  <2>4. /\ u.halt_reason = told /\ DOMAIN u = DOMAIN s
        /\ u.registered = s.registered /\ u.active = s.active
        /\ u.generation = s.generation /\ u.active_executions = s.active_executions
        /\ u.current_generation = s.current_generation
        /\ u.pending_generation = s.pending_generation
        /\ u.clear_pending = s.clear_pending
        /\ u.pending_transition = s.pending_transition
        /\ u.pending_ranges = s.pending_ranges
    BY <2>1 DEF IsControl, InitialSlab
  <2>5. IsControl(u)
    BY <2>2, <2>4 DEF IsControl
  <2>6. ExecutionAccounting(u)
    BY <2>4 DEF ExecutionAccounting
  <2>7. Signalled(u)
    BY <2>3, <2>4 DEF Signalled, IsControl
  <2> QED
    BY <2>3, <2>4, <2>5, <2>6, <2>7
<1> HIDE DEF u
<1>2. CASE finish
  <2>1. t = FinishPendingInvalidation(u)
    BY <1>2 DEF Finish
  <2> HIDE DEF t
  <2>2. IsControl(t) /\ SameExecutors(u, t)
    BY <1>1, <2>1, FinishControl
  <2>3. ExecutionAccounting(t) /\ Signalled(t)
    BY <1>1, <2>1, FinishAccounting
  <2> QED
    BY <1>1, <2>2, <2>3 DEF SameExecutors, t, u
<1>3. CASE ~finish
  BY <1>1, <1>3 DEF Finish, u
<1> QED
  BY <1>2, <1>3

-----------------------------------------------------------------------------
(* The inductive invariant of the control part.                            *)

ControlInv ==
    /\ IsControl(slab)
    /\ phase \in [Executor -> Phase]
    /\ AccountingIsExact
    /\ PendingIsSignalled

\* The phases in which an executor can still run a block.
Inside == {"enter", "start", "native", "dispatch"}

LEMMA InitControl == Init => ControlInv
<1> SUFFICES ASSUME Init PROVE ControlInv
  OBVIOUS
<1>1. IsControl(slab)
  BY SlabAssumption DEF Init, InitialSlab, IsControl, GenerationTransitionKind, SlabAssumption
<1>2. phase \in [Executor -> Phase]
  BY DEF Init, Phase
<1>3. AccountingIsExact
  BY SlabAssumption, FS_EmptySet DEF Init, InitialSlab, AccountingIsExact, ExecutionAccounting, SlabAssumption
<1>4. PendingIsSignalled
  BY DEF Init, InitialSlab, PendingIsSignalled, Pending
<1> QED
  BY <1>1, <1>2, <1>3, <1>4 DEF ControlInv

\* Steps of an executor between enter_execution and leave_execution that leave
\* the control part alone.
LEMMA InsideStep ==
    ASSUME ControlInv, NEW e \in Executor, NEW q \in Phase \ {"out"},
           phase[e] \in Inside, phase' = [phase EXCEPT ![e] = q],
           SameControl(slab, slab')
    PROVE  ControlInv'
<1>1. IsControl(slab')
  BY SameControlType DEF ControlInv
<1>2. phase' \in [Executor -> Phase]
  BY DEF ControlInv
<1>3. AccountingIsExact'
  BY DEF ControlInv, AccountingIsExact, ExecutionAccounting, SameControl, Inside
<1>4. PendingIsSignalled'
  BY DEF ControlInv, PendingIsSignalled, Pending, SameControl, Inside
<1> QED
  BY <1>1, <1>2, <1>3, <1>4 DEF ControlInv

\* Steps that change neither the control part nor a phase.
LEMMA QuietStep ==
    ASSUME ControlInv, phase' = phase, SameControl(slab, slab')
    PROVE  ControlInv'
<1>1. IsControl(slab')
  BY SameControlType DEF ControlInv
<1>2. AccountingIsExact'
  BY DEF ControlInv, AccountingIsExact, ExecutionAccounting, SameControl
<1>3. PendingIsSignalled'
  BY DEF ControlInv, PendingIsSignalled, Pending, SameControl
<1> QED
  BY <1>1, <1>2, <1>3 DEF ControlInv

LEMMA SameControlReflexive == \A s : SameControl(s, s)
BY DEF SameControl

\* Any call that leaves the executor table consistent and has told every active
\* executor what is pending.
LEMMA CallStep ==
    ASSUME ControlInv, phase' = phase,
           IsControl(slab'), ExecutionAccounting(slab'), Signalled(slab'),
           slab'.active = slab.active
    PROVE  ControlInv'
<1>1. AccountingIsExact'
  BY DEF ControlInv, AccountingIsExact
<1>2. PendingIsSignalled'
  BY DEF ControlInv, AccountingIsExact, PendingIsSignalled, Signalled
<1> QED
  BY <1>1, <1>2 DEF ControlInv

\* A call that changes halt reasons only, and takes CacheInvalidation from no
\* executor inside.
LEMMA HaltStep ==
    ASSUME ControlInv, phase' = phase,
           NEW halt \in [Executor -> SUBSET HaltReason],
           slab' = [slab EXCEPT !.halt_reason = halt],
           \A x \in Executor : phase[x] \in Inside =>
                ("CacheInvalidation" \in slab.halt_reason[x]
                    => "CacheInvalidation" \in halt[x])
    PROVE  ControlInv'
<1>1. IsControl(slab) /\ phase \in [Executor -> Phase]
  BY DEF ControlInv
<1>2. HaltChanged(slab, slab', halt)
  BY <1>1 DEF IsControl, InitialSlab, HaltChanged
<1>3. IsControl(slab')
  BY <1>1, <1>2 DEF IsControl, HaltChanged
<1>4. AccountingIsExact'
  BY <1>2, ZenonT(30) DEF ControlInv, AccountingIsExact, ExecutionAccounting, HaltChanged
<1>5. PendingIsSignalled'
  BY <1>2 DEF ControlInv, PendingIsSignalled, Pending, HaltChanged, Inside
<1> QED
  BY <1>1, <1>3, <1>4, <1>5 DEF ControlInv

\* service_pending_invalidation, called with the slab s.
LEMMA ServiceControl ==
    ASSUME NEW s, IsControl(s), ExecutionAccounting(s)
    PROVE  LET t == ServicePendingInvalidation(s)
           IN  /\ IsControl(t)
               /\ ExecutionAccounting(t)
               /\ SameExecutors(s, t)
               /\ Pending(t) => Pending(s)
<1> DEFINE u == FinishPendingInvalidation(s)
           t == FinishPendingDirectLinkPublication(u)
<1>1. IsControl(u) /\ SameExecutors(s, u) /\ (Pending(u) => Pending(s))
  BY FinishControl
<1>2. ExecutionAccounting(u)
  BY FinishAccounting
<1> HIDE DEF u
<1>3. SameControl(u, t)
  BY <1>1, PublicationControl
<1> HIDE DEF t
<1>4. IsControl(t)
  BY <1>1, <1>3, SameControlType
<1>5. ExecutionAccounting(t) /\ SameExecutors(s, t) /\ (Pending(t) => Pending(s))
  BY <1>1, <1>2, <1>3 DEF SameControl, SameExecutors, ExecutionAccounting, Pending
<1> QED
  BY <1>4, <1>5 DEF t, u, ServicePendingInvalidation

\* Every step of an executor keeps the invariant.
LEMMA ExecutorControl ==
    ASSUME ControlInv, NEW e \in Executor, ExecutorNext(e)
    PROVE  ControlInv'
<1> USE DEF Inside
<1>a. IsControl(slab) /\ phase \in [Executor -> Phase]
  BY DEF ControlInv
<1>1. CASE Register(e)
  <2>1. slab' = [slab EXCEPT !.registered = @ \cup {e}] /\ phase' = phase
    BY <1>1 DEF Register, RegisterExecutor
  <2>2. IsControl(slab')
    BY <1>a, <2>1 DEF IsControl, InitialSlab
  <2>3. AccountingIsExact'
    BY <2>1, ZenonT(30) DEF ControlInv, IsControl, InitialSlab, AccountingIsExact, ExecutionAccounting
  <2>4. PendingIsSignalled'
    BY <2>1 DEF ControlInv, IsControl, InitialSlab, PendingIsSignalled, Pending
  <2> QED
    BY <1>a, <2>1, <2>2, <2>3, <2>4 DEF ControlInv
<1>2. CASE Unregister(e)
  <2>1. /\ slab' = [slab EXCEPT !.registered = @ \ {e}, !.generation[e] = 0]
        /\ phase' = phase /\ e \notin slab.active
    BY <1>2 DEF Unregister, UnregisterExecutor
  <2> DEFINE gen == [slab.generation EXCEPT ![e] = 0]
  <2>2. /\ gen \in [Executor -> Nat]
        /\ \A x \in Executor : x # e => gen[x] = slab.generation[x]
    BY <1>a DEF IsControl
  <2> HIDE DEF gen
  <2>3. /\ DOMAIN slab' = DOMAIN slab
        /\ slab'.registered = slab.registered \ {e} /\ slab'.generation = gen
        /\ slab'.active = slab.active
        /\ slab'.active_executions = slab.active_executions
        /\ slab'.halt_reason = slab.halt_reason
        /\ slab'.current_generation = slab.current_generation
        /\ slab'.pending_generation = slab.pending_generation
        /\ slab'.clear_pending = slab.clear_pending
        /\ slab'.pending_transition = slab.pending_transition
        /\ slab'.pending_ranges = slab.pending_ranges
    BY <1>a, <2>1 DEF IsControl, InitialSlab, gen
  <2>4. IsControl(slab')
    BY <1>a, <2>2, <2>3 DEF IsControl
  <2>5. AccountingIsExact'
    BY <2>1, <2>2, <2>3, ZenonT(30) DEF ControlInv, IsControl, AccountingIsExact, ExecutionAccounting
  <2>6. PendingIsSignalled'
    BY <2>1, <2>3 DEF ControlInv, PendingIsSignalled, Pending
  <2> QED
    BY <1>a, <2>1, <2>4, <2>5, <2>6 DEF ControlInv
<1>3. CASE Enter(e)
  <2> DEFINE t == FinishPendingDirectLinkPublication(slab)
             gen == [slab.generation EXCEPT ![e] = slab.current_generation]
  <2>1. SameControl(slab, t)
    BY <1>a, PublicationControl
  <2>2. /\ slab' = [t EXCEPT !.active = @ \cup {e},
                             !.generation[e] = slab.current_generation,
                             !.active_executions = @ + 1]
        /\ phase[e] = "out" /\ phase' = [phase EXCEPT ![e] = "enter"]
        /\ ~Pending(slab) /\ e \in slab.registered /\ e \notin slab.active
    BY <1>3 DEF Enter, EnterExecution, EnterReady, EnterAllowed
  <2>3. /\ gen \in [Executor -> Nat]
        /\ gen[e] = slab.current_generation
        /\ \A x \in Executor : x # e => gen[x] = slab.generation[x]
    BY <1>a DEF IsControl
  <2> HIDE DEF t, gen
  <2>4. /\ DOMAIN slab' = DOMAIN slab
        /\ slab'.registered = slab.registered /\ slab'.generation = gen
        /\ slab'.active = slab.active \cup {e}
        /\ slab'.active_executions = slab.active_executions + 1
        /\ slab'.halt_reason = slab.halt_reason
        /\ slab'.current_generation = slab.current_generation
        /\ slab'.pending_generation = slab.pending_generation
        /\ slab'.clear_pending = slab.clear_pending
        /\ slab'.pending_transition = slab.pending_transition
        /\ slab'.pending_ranges = slab.pending_ranges
    BY <1>a, <2>1, <2>2 DEF IsControl, InitialSlab, SameControl, gen
  <2>5. IsControl(slab')
    BY <1>a, <2>3, <2>4 DEF IsControl
  <2>6. IsFiniteSet(slab.active)
    BY <1>a, SlabAssumption, FS_Subset DEF IsControl, SlabAssumption
  <2>7. Cardinality(slab.active \cup {e}) = Cardinality(slab.active) + 1
    BY <2>2, <2>6, FS_AddElement, ZenonT(30)
  <2>8. AccountingIsExact'
    <3>1. /\ slab.active \subseteq slab.registered /\ slab.active \subseteq Executor
          /\ slab.active_executions = Cardinality(slab.active)
          /\ \A x \in slab.active : slab.generation[x] = slab.current_generation
          /\ slab.active = {x \in Executor : phase[x] # "out"}
      BY <1>a DEF ControlInv, IsControl, AccountingIsExact, ExecutionAccounting
    <3>2. ExecutionAccounting(slab')
      BY <2>2, <2>3, <2>4, <2>7, <3>1, ZenonT(30) DEF ExecutionAccounting
    <3>3. slab'.active = {x \in Executor : phase'[x] # "out"}
      BY <1>a, <2>2, <2>4, <3>1
    <3> QED
      BY <3>2, <3>3 DEF AccountingIsExact
  <2>9. PendingIsSignalled'
    BY <2>2, <2>4 DEF PendingIsSignalled, Pending
  <2> QED
    BY <1>a, <2>2, <2>5, <2>8, <2>9 DEF ControlInv, Phase
<1>4. CASE Lookup(e)
  <2>1. ASSUME NEW p, LookupAnswers(e, p), SameControl(slab, slab') PROVE ControlInv'
    <3>1. \E q \in Phase \ {"out"} : phase' = [phase EXCEPT ![e] = q]
      BY <2>1 DEF LookupAnswers, Returns, Executes, Phase
    <3> QED
      BY <2>1, <3>1, InsideStep, ZenonT(30) DEF LookupAnswers
  <2>2. CASE GiveUp(e)
    BY <2>1, <2>2, SameControlReflexive DEF GiveUp
  <2>3. ASSUME NEW l \in Location, Find(e, l) PROVE ControlInv'
    BY <1>a, <2>1, <2>3, TouchControl DEF Find
  <2>4. ASSUME NEW l \in Location, NEW size \in BlockSize, NEW cover \in Covers[l],
               Emit(e, l, cover, size)
        PROVE  ControlInv'
    <3>1. SameControl(slab, slab')
      BY <1>a, <2>4, EmitControl, ZenonT(30) DEF Emit
    <3> QED
      BY <2>1, <2>4, <3>1, ZenonT(30) DEF Emit
  <2>5. ASSUME NEW l \in Location, NEW size \in BlockSize, NEW cover \in Covers[l],
               EmitThrows(e, l, cover, size)
        PROVE  ControlInv'
    BY <1>a, <2>5, EmitControl, QuietStep, ZenonT(30) DEF EmitThrows, Throws
  <2>6. CASE Unwind(e)
    <3>1. "done" \in Phase \ {"out"}
      BY DEF Phase
    <3> QED
      BY <2>6, <3>1, SameControlReflexive, InsideStep, ZenonT(30) DEF Unwind
  <2> QED
    BY <1>4, <2>2, <2>3, <2>4, <2>5, <2>6 DEF Lookup
<1>5. CASE RunCode(e)
  <2>1. SameControl(slab, slab')
    BY <1>a, <1>5, TouchControl DEF RunCode
  <2>2. /\ phase[e] = "start"
        /\ \E q \in Phase \ {"out"} : phase' = [phase EXCEPT ![e] = q]
    BY <1>5 DEF RunCode, Returns, Executes, Phase
  <2> QED
    BY <2>1, <2>2, InsideStep, ZenonT(30)
<1>6. CASE StepCode(e)
  <2> DEFINE t == Touch(slab, ptr[e])
             halt == [slab.halt_reason EXCEPT ![e] = IF @ = {} THEN {"Step"} ELSE @]
  <2>1. SameControl(slab, t)
    BY <1>a, TouchControl
  <2>2. slab' = [t EXCEPT !.halt_reason[e] = IF @ = {} THEN {"Step"} ELSE @]
    BY <1>6 DEF StepCode
  <2>3. halt \in [Executor -> SUBSET HaltReason]
    BY <1>a DEF IsControl, HaltReason
  <2>4. \A x \in Executor : slab.halt_reason[x] \subseteq halt[x]
    BY <1>a DEF IsControl
  <2> HIDE DEF t, halt
  <2>5. /\ DOMAIN slab' = DOMAIN slab
        /\ slab'.registered = slab.registered /\ slab'.generation = slab.generation
        /\ slab'.active = slab.active
        /\ slab'.active_executions = slab.active_executions
        /\ slab'.halt_reason = halt
        /\ slab'.current_generation = slab.current_generation
        /\ slab'.pending_generation = slab.pending_generation
        /\ slab'.clear_pending = slab.clear_pending
        /\ slab'.pending_transition = slab.pending_transition
        /\ slab'.pending_ranges = slab.pending_ranges
    BY <1>a, <2>1, <2>2, SMTT(30) DEF IsControl, InitialSlab, SameControl, halt
  <2>6. IsControl(slab')
    BY <1>a, <2>3, <2>5 DEF IsControl
  <2>7. PICK q \in Phase \ {"out"} : phase' = [phase EXCEPT ![e] = q]
    BY <1>6 DEF StepCode, Returns, Executes, Phase
  <2>8. phase[e] = "start"
    BY <1>6 DEF StepCode
  <2>9. AccountingIsExact'
    BY <1>a, <2>5, <2>7, <2>8 DEF ControlInv, AccountingIsExact, ExecutionAccounting
  <2>10. PendingIsSignalled'
    BY <1>a, <2>4, <2>5, <2>7, <2>8 DEF ControlInv, PendingIsSignalled, Pending
  <2> QED
    BY <1>a, <2>6, <2>7, <2>9, <2>10 DEF ControlInv
<1>7. CASE NativeStep(e)
  <2>1. ASSUME NEW host_pc \in CodeOf(e), FastmemFault(e, host_pc)
        PROVE  ControlInv'
    <3>1. SameControl(slab, slab')
      BY <1>a, <2>1 DEF FastmemFault, IsControl, InitialSlab, SameControl
    <3> QED
      BY <2>1, <3>1, QuietStep DEF FastmemFault
  <2>2. CASE \A host_pc \in CodeOf(e) : ~FastmemFault(e, host_pc)
    <3>1. slab' = slab
      BY <1>7, <2>2, SMTT(30)
      DEF NativeStep, FollowLink, PushRSB, PopRSBHint, ReturnToDispatcher, PollHalt,
                        BudgetExhausted
    <3>2. /\ phase[e] = "native"
          /\ \/ phase' = phase
             \/ \E q \in Phase \ {"out"} : phase' = [phase EXCEPT ![e] = q]
      BY <1>7, <2>2 DEF NativeStep, FollowLink, PushRSB, PopRSBHint, ReturnToDispatcher, PollHalt,
                        BudgetExhausted, Returns, Phase
    <3> QED
      BY <3>1, <3>2, SameControlReflexive, InsideStep, QuietStep, SMTT(30)
  <2> QED
    BY <2>1, <2>2
<1>8. CASE ReturnFromRunCode(e)
  <2> DEFINE halt == [slab.halt_reason EXCEPT ![e] = {}]
  <2>1. /\ slab' = [slab EXCEPT !.halt_reason = halt]
        /\ phase[e] = "returning" /\ phase' = [phase EXCEPT ![e] = "done"]
    BY <1>8 DEF ReturnFromRunCode
  <2>2. /\ halt \in [Executor -> SUBSET HaltReason]
        /\ \A x \in Executor : x # e => halt[x] = slab.halt_reason[x]
    BY <1>a DEF IsControl
  <2> HIDE DEF halt
  <2>3. HaltChanged(slab, slab', halt)
    BY <1>a, <2>1 DEF IsControl, InitialSlab, HaltChanged
  <2>4. IsControl(slab')
    BY <1>a, <2>2, <2>3 DEF IsControl, HaltChanged
  <2>5. AccountingIsExact'
    BY <1>a, <2>1, <2>3, ZenonT(30) DEF ControlInv, AccountingIsExact, ExecutionAccounting, HaltChanged
  <2>6. PendingIsSignalled'
    BY <1>a, <2>1, <2>2, <2>3 DEF ControlInv, PendingIsSignalled, Pending, HaltChanged
  <2> QED
    BY <1>a, <2>1, <2>4, <2>5, <2>6 DEF ControlInv, Phase
<1>9. CASE Leave(e)
  <2> DEFINE s == [slab EXCEPT !.active = @ \ {e}, !.active_executions = @ - 1]
             t == ServicePendingInvalidation(s)
  <2>1. /\ slab' = t /\ phase[e] = "done" /\ phase' = [phase EXCEPT ![e] = "out"]
        /\ e \in slab.active /\ slab.active_executions # 0
    BY <1>9 DEF Leave, LeaveExecution, LeaveAllowed
  <2>2. /\ DOMAIN s = DOMAIN slab
        /\ s.registered = slab.registered /\ s.generation = slab.generation
        /\ s.active = slab.active \ {e}
        /\ s.active_executions = slab.active_executions - 1
        /\ s.halt_reason = slab.halt_reason
        /\ s.current_generation = slab.current_generation
        /\ s.pending_generation = slab.pending_generation
        /\ s.clear_pending = slab.clear_pending
        /\ s.pending_transition = slab.pending_transition
        /\ s.pending_ranges = slab.pending_ranges
    BY <1>a DEF IsControl, InitialSlab
  <2> HIDE DEF s
  <2>3. IsControl(s)
    BY <1>a, <2>1, <2>2, SMTT(30) DEF IsControl
  <2>4. IsFiniteSet(slab.active)
    BY <1>a, SlabAssumption, FS_Subset DEF IsControl, SlabAssumption
  <2>5. Cardinality(slab.active \ {e}) = Cardinality(slab.active) - 1
    BY <2>1, <2>4, FS_RemoveElement, ZenonT(30)
  <2>6. ExecutionAccounting(s)
    BY <2>2, <2>5, SMTT(30) DEF ControlInv, AccountingIsExact, ExecutionAccounting
  <2>7. IsControl(t) /\ ExecutionAccounting(t) /\ SameExecutors(s, t) /\ (Pending(t) => Pending(s))
    BY <2>3, <2>6, ServiceControl
  <2> HIDE DEF t
  <2>8. AccountingIsExact'
    <3>1. slab.active = {x \in Executor : phase[x] # "out"}
      BY DEF ControlInv, AccountingIsExact
    <3>2. slab'.active = {x \in Executor : phase'[x] # "out"}
      BY <1>a, <2>1, <2>2, <2>7, <3>1, SMTT(30) DEF SameExecutors
    <3> QED
      BY <2>1, <2>7, <3>2 DEF AccountingIsExact
  <2>9. PendingIsSignalled'
    <3>1. Pending(s) = Pending(slab)
      BY <2>2 DEF Pending
    <3> QED
      BY <1>a, <2>1, <2>2, <2>7, <3>1, SMTT(30) DEF ControlInv, PendingIsSignalled, SameExecutors
  <2> QED
    BY <1>a, <2>1, <2>7, <2>8, <2>9 DEF ControlInv, Phase
<1>10. ASSUME NEW hr \in UserHaltReason, HaltExecution(e, hr) \/ ClearHalt(e, hr)
       PROVE  ControlInv'
  <2>1. PICK halt : /\ slab' = [slab EXCEPT !.halt_reason = halt]
                    /\ halt \in [Executor -> SUBSET HaltReason]
                    /\ \A x \in Executor : phase[x] \in Inside =>
                        ("CacheInvalidation" \in slab.halt_reason[x]
                            => "CacheInvalidation" \in halt[x])
    <3>1. CASE HaltExecution(e, hr)
      <4> DEFINE halt == [slab.halt_reason EXCEPT ![e] = @ \cup {hr}]
      <4>1. slab' = [slab EXCEPT !.halt_reason = halt]
        BY <3>1 DEF HaltExecution, Calls
      <4>2. /\ halt \in [Executor -> SUBSET HaltReason]
            /\ \A x \in Executor : slab.halt_reason[x] \subseteq halt[x]
        BY <1>a DEF IsControl, HaltReason
      <4> QED
        BY <4>1, <4>2, ZenonT(30)
    <3>2. CASE ClearHalt(e, hr)
      <4> DEFINE halt == [slab.halt_reason EXCEPT ![e] = @ \ {hr}]
      <4>1. /\ slab' = [slab EXCEPT !.halt_reason = halt]
            /\ hr = "CacheInvalidation" => phase[e] \in {"out", "done"}
        BY <3>2 DEF ClearHalt, Calls
      <4>2. /\ halt \in [Executor -> SUBSET HaltReason]
            /\ \A x \in Executor : x # e => halt[x] = slab.halt_reason[x]
            /\ halt[e] = slab.halt_reason[e] \ {hr}
        BY <1>a DEF IsControl
      <4> HIDE DEF halt
      <4>3. ASSUME NEW x \in Executor, phase[x] \in Inside,
                   "CacheInvalidation" \in slab.halt_reason[x]
            PROVE  "CacheInvalidation" \in halt[x]
        BY <4>1, <4>2, <4>3
      <4> QED
        BY <4>1, <4>2, <4>3, SMTT(30)
    <3> QED
      BY <1>10, <3>1, <3>2
  <2>2. phase' = phase
    BY <1>10 DEF HaltExecution, ClearHalt, Calls
  <2> QED
    BY <2>1, <2>2, HaltStep
<1>11. CASE Reset(e)
  <2> DEFINE halt == [slab.halt_reason EXCEPT ![e] = {}]
  <2>1. slab' = [slab EXCEPT !.halt_reason = halt] /\ phase' = phase /\ phase[e] = "out"
    BY <1>11 DEF Reset, Calls
  <2>2. /\ halt \in [Executor -> SUBSET HaltReason]
        /\ \A x \in Executor : x # e => halt[x] = slab.halt_reason[x]
    BY <1>a DEF IsControl
  <2>3. \A x \in Executor : phase[x] \in Inside => x # e
    BY <2>1 DEF Inside
  <2> HIDE DEF halt
  <2> QED
    BY <2>1, <2>2, <2>3, HaltStep
<1> QED
  BY <1>1, <1>2, <1>3, <1>4, <1>5, <1>6, <1>7, <1>8, <1>9, <1>10, <1>11, SMTT(30)
  DEF ExecutorNext

\* Every call into the slab from any thread keeps the invariant.
LEMMA CallerControl ==
    ASSUME ControlInv, CallerNext
    PROVE  ControlInv'
<1>a. /\ IsControl(slab) /\ phase \in [Executor -> Phase]
      /\ ExecutionAccounting(slab)
  BY DEF ControlInv, AccountingIsExact
<1>1. ASSUME NEW kind \in GenerationTransitionKind, NEW finish,
             Calls(RequestGenerationTransition(slab, kind, finish))
      PROVE  ControlInv'
  <2> DEFINE generation == IF slab.clear_pending THEN slab.pending_generation
                           ELSE slab.current_generation + 1
             transition == IF slab.clear_pending /\ kind # "ClearAll"
                           THEN slab.pending_transition ELSE kind
             ranges == IF kind = "ClearAll" THEN {} ELSE slab.pending_ranges
             s == [slab EXCEPT !.clear_pending = TRUE,
                               !.pending_generation = generation,
                               !.pending_transition = transition,
                               !.pending_ranges = ranges]
  <2>1. slab' = Finish(SignalActiveExecutors(s), finish) /\ phase' = phase
    BY <1>1 DEF Calls, RequestGenerationTransition
  <2>2. /\ generation \in Nat /\ transition \in GenerationTransitionKind
        /\ ranges \in SUBSET GuestAddress
    BY <1>a DEF IsControl
  <2> HIDE DEF generation, transition, ranges
  <2>3. IsControl(s) /\ ExecutionAccounting(s) /\ s.active = slab.active
    BY <1>a, <2>2, SMTT(30) DEF IsControl, InitialSlab, ExecutionAccounting
  <2> HIDE DEF s
  <2> QED
    BY <2>1, <2>3, RequestControl, CallStep
<1>2. ASSUME NEW start \in GuestAddress, NEW length \in 0 .. MaxAddress + 1, NEW finish,
             Calls(RequestRangeTransition(slab, start, length, finish))
      PROVE  ControlInv'
  <2> DEFINE ranges == slab.pending_ranges \cup AddressRange(start, length)
             s == [slab EXCEPT !.pending_ranges = ranges]
  <2>1. phase' = phase /\ (slab' = slab \/ slab' = Finish(SignalActiveExecutors(s), finish))
    BY <1>2 DEF Calls, RequestRangeTransition
  <2>2. ranges \in SUBSET GuestAddress
    BY <1>a DEF IsControl, AddressRange
  <2> HIDE DEF ranges
  <2>3. IsControl(s) /\ ExecutionAccounting(s) /\ s.active = slab.active
    BY <1>a, <2>2 DEF IsControl, InitialSlab, ExecutionAccounting
  <2> HIDE DEF s
  <2> QED
    BY <2>1, <2>3, RequestControl, CallStep, QuietStep, SameControlReflexive
<1>3. CASE Service
  <2> DEFINE t == ServicePendingInvalidation(slab)
  <2>1. slab' = t /\ phase' = phase
    BY <1>3 DEF Service, Calls
  <2>2. IsControl(t) /\ ExecutionAccounting(t) /\ SameExecutors(slab, t) /\ (Pending(t) => Pending(slab))
    BY <1>a, ServiceControl
  <2> HIDE DEF t
  <2>3. AccountingIsExact'
    BY <2>1, <2>2 DEF ControlInv, AccountingIsExact, SameExecutors
  <2>4. PendingIsSignalled'
    BY <2>1, <2>2 DEF ControlInv, PendingIsSignalled, SameExecutors
  <2> QED
    BY <1>a, <2>1, <2>2, <2>3, <2>4 DEF ControlInv
<1>4. ASSUME NEW l \in Location, PrecompileFind(l) PROVE ControlInv'
  BY <1>a, <1>4, TouchControl, QuietStep, SMTT(30) DEF PrecompileFind, Calls
<1>5. ASSUME NEW l \in Location, NEW size \in BlockSize, NEW cover \in Covers[l],
             PrecompileEmit(l, cover, size)
      PROVE  ControlInv'
  <2>1. SameControl(slab, slab')
    BY <1>a, <1>5, EmitControl, ZenonT(30) DEF PrecompileEmit, Calls
  <2> QED
    BY <1>5, <2>1, QuietStep, SMTT(30) DEF PrecompileEmit, Calls
<1>6. CASE ClearCache \/ RecycleCache \/ RequestCacheClear
  BY <1>1, <1>6 DEF ClearCache, RecycleCache, RequestCacheClear, GenerationTransitionKind
<1>7. ASSUME NEW start \in GuestAddress, NEW length \in 0 .. MaxAddress + 1,
             InvalidateCacheRange(start, length) \/ RequestCacheRange(start, length)
      PROVE  ControlInv'
  BY <1>2, <1>7, ZenonT(30) DEF InvalidateCacheRange, RequestCacheRange
<1>8. ASSUME NEW l \in Location, NEW size \in BlockSize, NEW cover \in Covers[l],
             PrecompileThrows(l, cover, size)
      PROVE  ControlInv'
  BY <1>a, <1>8, EmitControl, QuietStep, ZenonT(30) DEF PrecompileThrows, Throws
<1> QED
  BY <1>3, <1>4, <1>5, <1>6, <1>7, <1>8, SMTT(30) DEF CallerNext

\* The executor table, the pending transition and the halt reasons stay
\* consistent through every entry point of NativeCodeSlab.
THEOREM ControlInvariant == Spec => []ControlInv
<1>1. ControlInv /\ [Next]_vars => ControlInv'
  <2> SUFFICES ASSUME ControlInv, [Next]_vars PROVE ControlInv'
    OBVIOUS
  <2>1. CASE UNCHANGED vars
    BY <2>1, QuietStep, SameControlReflexive DEF vars
  <2>2. CASE Next
    BY <2>2, CallerControl, ExecutorControl DEF Next
  <2> QED
    BY <2>1, <2>2
<1> QED
  BY <1>1, InitControl, PTL DEF Spec
-----------------------------------------------------------------------------
\* leave_execution, which runs in a scope exit, never finds its executor
\* unregistered, inactive, uncounted or of another generation, however many
\* executors share the slab and whatever they request of each other.
THEOREM LeaveNeverThrowsTheorem == Spec => []LeaveNeverThrows
<1>1. ControlInv => LeaveNeverThrows
  <2> SUFFICES ASSUME ControlInv, NEW e \in Executor, phase[e] = "done"
               PROVE  LeaveAllowed(slab, e, slab.generation[e])
    BY DEF LeaveNeverThrows
  <2>1. /\ e \in slab.active /\ e \in slab.registered
        /\ slab.generation[e] = slab.current_generation
        /\ slab.active_executions = Cardinality(slab.active)
    BY SMTT(30) DEF ControlInv, AccountingIsExact, ExecutionAccounting
  <2>2. IsFiniteSet(slab.active)
    BY SlabAssumption, FS_Subset, SMTT(30) DEF ControlInv, IsControl, SlabAssumption
  <2>3. slab.active_executions # 0
    BY <2>1, <2>2, FS_EmptySet
  <2> QED
    BY <2>1, <2>3 DEF LeaveAllowed
<1> QED
  BY <1>1, ControlInvariant, PTL

\* signal_active_executors reaches everyone: while a clear, a recycle or a range
\* is pending, no executor can run on without seeing CacheInvalidation.
THEOREM PendingIsSignalledTheorem == Spec => []PendingIsSignalled
<1>1. ControlInv => PendingIsSignalled
  BY DEF ControlInv
<1> QED
  BY <1>1, ControlInvariant, PTL

\* active_executions is the number of executors between enter_execution and
\* leave_execution, and each of them entered in the current generation.
THEOREM AccountingIsExactTheorem == Spec => []AccountingIsExact
<1>1. ControlInv => AccountingIsExact
  BY DEF ControlInv
<1> QED
  BY <1>1, ControlInvariant, PTL
=============================================================================
