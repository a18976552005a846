-------------------------- MODULE ExclusiveMonitor --------------------------
(***************************************************************************)
(* ExclusiveMonitor (src/umbra/interface/exclusive_monitor.h and the       *)
(* exclusive_monitor.cpp of each backend, which are the same) with the     *)
(* generated code that uses it.                                            *)
(*                                                                         *)
(* Each processor's reservation is an entry of exclusive_addresses.  With  *)
(* an address resolver the processors that reserve the same key are also   *)
(* on a doubly linked list, which CheckAndClear walks.  Without one, the   *)
(* x64 fast path writes exclusive_addresses and leaves the lists alone, so *)
(* CheckAndClear scans the array and the lists decay; the callbacks keep   *)
(* updating them all the same.                                             *)
(*                                                                         *)
(* Every operation runs under the monitor's lock and is one step.  The     *)
(* field exclusive_state of the processor's JitState says whether guest    *)
(* code has a load-exclusive open.                                         *)
(***************************************************************************)
EXTENDS Integers, FiniteSets

CONSTANTS
    Processor,
    VAddr,              \* guest virtual addresses
    Key,                \* reservation keys
    Value,
    Invalid,            \* INVALID_EXCLUSIVE_ADDRESS
    NoProcessor,        \* INVALID_PROCESSOR_ID
    Resolve,            \* the resolver, by processor and address
    Unresolved          \* bound: the processors that run without a resolver

ASSUME MonitorAssumption ==
    /\ IsFiniteSet(Processor)
    /\ VAddr \subseteq Key
    /\ Invalid \notin Key \cup Value
    /\ NoProcessor \notin Processor
    /\ Resolve \in [Processor -> [VAddr -> Key]]
    /\ Unresolved \subseteq Processor

VARIABLES
    has_resolver,       \* set before any Jit starts
    monitor,            \* the fields of ExclusiveMonitor
    exclusive_state,    \* by processor
    memory,
    status              \* how the last step ended, if a store-exclusive

vars == <<has_resolver, monitor, exclusive_state, memory, status>>

ResolveAddress(p, a) == IF has_resolver THEN Resolve[p][a] ELSE a

-----------------------------------------------------------------------------
(* The monitor's functions.  m is a record of its fields.                  *)

NewMonitor ==
    [addresses |-> [p \in Processor |-> Invalid],
     values |-> [p \in Processor |-> Invalid],
     previous |-> [p \in Processor |-> NoProcessor],
     next |-> [p \in Processor |-> NoProcessor],
     heads |-> [k \in Key |-> NoProcessor]]     \* NoProcessor: not in the map

\* Mutant: the key is stored as the successor.
AddKeyAsNext(m, p, k) ==
    LET head == m.heads[k]
    IN  [m EXCEPT
            !.heads[k] = p,
            !.next[p] = IF head = NoProcessor THEN head ELSE k,
            !.previous = [q \in Processor |->
                IF q = head THEN p ELSE IF q = p THEN NoProcessor ELSE @[q]]]

AddReservation(m, p, k) ==
    LET head == m.heads[k]
    IN  [m EXCEPT
            !.heads[k] = p,
            !.next[p] = head,
            !.previous = [q \in Processor |->
                IF q = head THEN p ELSE IF q = p THEN NoProcessor ELSE @[q]]]

\* Mutant: the successor keeps its link to the processor that leaves.
RemoveOneSided(m, p) ==
    LET k == m.addresses[p]
        previous == m.previous[p]
        next == m.next[p]
        unlinked ==
            IF previous = NoProcessor
            THEN [m EXCEPT !.heads[k] = IF @ = NoProcessor THEN @ ELSE next]
            ELSE [m EXCEPT !.next[previous] = next]
    IN  IF k = Invalid THEN m
        ELSE [unlinked EXCEPT !.previous[p] = NoProcessor, !.next[p] = NoProcessor]

RemoveReservation(m, p) ==
    LET k == m.addresses[p]
        previous == m.previous[p]
        next == m.next[p]
        unlinked ==
            IF previous = NoProcessor
            THEN [m EXCEPT !.heads[k] = IF @ = NoProcessor THEN @ ELSE next]
            ELSE [m EXCEPT !.next[previous] = next]
        relinked ==
            IF next = NoProcessor
            THEN unlinked
            ELSE [unlinked EXCEPT !.previous[next] = previous]
    IN  IF k = Invalid THEN m
        ELSE [relinked EXCEPT !.previous[p] = NoProcessor, !.next[p] = NoProcessor]

\* The processors the walk from the head of k's list meets.
Walk(m, k) ==
    LET Nth[n \in 0 .. Cardinality(Processor)] ==
            IF n = 0 THEN m.heads[k]
            ELSE IF Nth[n - 1] = NoProcessor THEN NoProcessor
            ELSE m.next[Nth[n - 1]]
    IN  {Nth[n] : n \in 0 .. Cardinality(Processor)} \ {NoProcessor}

ClearListed(m, k) ==
    LET listed == Walk(m, k)
    IN  [m EXCEPT
            !.addresses = [q \in Processor |-> IF q \in listed THEN Invalid ELSE @[q]],
            !.previous = [q \in Processor |-> IF q \in listed THEN NoProcessor ELSE @[q]],
            !.next = [q \in Processor |-> IF q \in listed THEN NoProcessor ELSE @[q]],
            !.heads[k] = NoProcessor]

ClearScanned(m, k) ==
    [m EXCEPT !.addresses = [q \in Processor |-> IF @[q] = k THEN Invalid ELSE @[q]]]

\* CheckAndClear, for a processor that holds the reservation
Cleared(m, k) ==
    IF has_resolver /\ m.heads[k] # NoProcessor THEN ClearListed(m, k) ELSE ClearScanned(m, k)

-----------------------------------------------------------------------------
Init ==
    /\ has_resolver \in BOOLEAN
    /\ monitor = NewMonitor
    /\ exclusive_state = [p \in Processor |-> FALSE]
    /\ memory \in [Key -> Value]
    /\ status = "none"

\* ReadAndMark from the callback path
ExclusiveRead(p, a) ==
    LET k == ResolveAddress(p, a)
    IN  /\ exclusive_state' = [exclusive_state EXCEPT ![p] = TRUE]
        /\ monitor' = [AddReservation(
                          [RemoveReservation(monitor, p) EXCEPT !.addresses[p] = k], p, k)
                       EXCEPT !.values[p] = memory[k]]
        /\ status' = "none"
        /\ UNCHANGED <<has_resolver, memory>>

\* Mutant: the store does not compare.
StoreWithoutComparing(p, k, v) ==
    /\ memory' = [memory EXCEPT ![k] = v]
    /\ status' = "success"

\* The callback, or the locked cmpxchg: compare with the saved value and store.
CompareAndStore(p, k, v) ==
    IF memory[k] = monitor.values[p]
    THEN /\ memory' = [memory EXCEPT ![k] = v]
         /\ status' = "success"
    ELSE /\ status' = "failure"
         /\ UNCHANGED memory

Fails(p) ==
    /\ status' = "failure"
    /\ UNCHANGED <<monitor, memory>>

\* DoExclusiveOperation from the callback path
ExclusiveWrite(p, a, v) ==
    LET k == ResolveAddress(p, a)
    IN  /\ exclusive_state' = [exclusive_state EXCEPT ![p] = FALSE]
        /\ IF exclusive_state[p] /\ monitor.addresses[p] = k
           THEN monitor' = Cleared(monitor, k) /\ CompareAndStore(p, k, v)
           ELSE Fails(p)
        /\ UNCHANGED has_resolver

\* The x64 fast path, used without a resolver only: the array is written under
\* the lock and the lists are left alone.
InlineRead(p, a) ==
    /\ ~has_resolver
    /\ exclusive_state' = [exclusive_state EXCEPT ![p] = TRUE]
    /\ monitor' = [monitor EXCEPT !.addresses[p] = a, !.values[p] = memory[a]]
    /\ status' = "none"
    /\ UNCHANGED <<has_resolver, memory>>

\* Mutant: EmitExclusiveTestAndClear is skipped.
InlineWriteKeepingOthers(p, a, v) ==
    /\ ~has_resolver
    /\ IF exclusive_state[p] /\ monitor.addresses[p] = a
       THEN /\ exclusive_state' = [exclusive_state EXCEPT ![p] = FALSE]
            /\ CompareAndStore(p, a, v)
            /\ UNCHANGED monitor
       ELSE /\ Fails(p)
            /\ UNCHANGED exclusive_state
    /\ UNCHANGED has_resolver

InlineWrite(p, a, v) ==
    /\ ~has_resolver
    /\ IF exclusive_state[p] /\ monitor.addresses[p] = a
       THEN /\ monitor' = [monitor EXCEPT !.addresses =
                    [q \in Processor |-> IF q # p /\ @[q] = a THEN Invalid ELSE @[q]]]
            /\ exclusive_state' = [exclusive_state EXCEPT ![p] = FALSE]
            /\ CompareAndStore(p, a, v)
       ELSE /\ Fails(p)
            /\ UNCHANGED exclusive_state
    /\ UNCHANGED has_resolver

\* CLREX, and Jit::ClearExclusiveState
ClearExclusive(p) ==
    /\ exclusive_state' = [exclusive_state EXCEPT ![p] = FALSE]
    /\ status' = "none"
    /\ UNCHANGED <<has_resolver, monitor, memory>>

WriteMemory(k, v) ==
    /\ memory' = [memory EXCEPT ![k] = v]
    /\ status' = "none"
    /\ UNCHANGED <<has_resolver, monitor, exclusive_state>>

Clear ==
    /\ monitor' = [NewMonitor EXCEPT !.values = monitor.values]
    /\ status' = "none"
    /\ UNCHANGED <<has_resolver, exclusive_state, memory>>

ClearProcessor(p) ==
    /\ monitor' = [RemoveReservation(monitor, p) EXCEPT !.addresses[p] = Invalid]
    /\ status' = "none"
    /\ UNCHANGED <<has_resolver, exclusive_state, memory>>

Running == IF has_resolver THEN Processor ELSE Unresolved

Next ==
    \/ \E p \in Running, a \in VAddr :
        \/ ExclusiveRead(p, a)
        \/ InlineRead(p, a)
        \/ \E v \in Value : ExclusiveWrite(p, a, v) \/ InlineWrite(p, a, v)
    \/ \E p \in Running : ClearExclusive(p) \/ ClearProcessor(p)
    \/ \E k \in Key, v \in Value : WriteMemory(k, v)
    \/ Clear

Spec == Init /\ [][Next]_vars

-----------------------------------------------------------------------------
(* Properties                                                              *)

\* The types of the monitor's fields.
TypeOK ==
    /\ has_resolver \in BOOLEAN
    /\ monitor \in
        [addresses : [Processor -> Key \cup {Invalid}],
         values : [Processor -> Value \cup {Invalid}],
         previous : [Processor -> Processor \cup {NoProcessor}],
         next : [Processor -> Processor \cup {NoProcessor}],
         heads : [Key -> Processor \cup {NoProcessor}]]
    /\ exclusive_state \in [Processor -> BOOLEAN]
    /\ memory \in [Key -> Value]
    /\ status \in {"none", "success", "failure"}

\* With a resolver "its index is complete" (CheckAndClear): the list of a key
\* holds exactly the processors that reserve it, linked both ways, so the walk
\* clears every reservation the scan would.
IndexIsComplete ==
    has_resolver =>
        /\ \A k \in Key : Walk(monitor, k) = {p \in Processor : monitor.addresses[p] = k}
        /\ \A p \in Processor :
            monitor.next[p] # NoProcessor => monitor.previous[monitor.next[p]] = p

Reservation(p) ==
    IF exclusive_state[p] /\ monitor.addresses[p] # Invalid
    THEN [key |-> monitor.addresses[p], value |-> monitor.values[p]]
    ELSE [key |-> Invalid, value |-> Invalid]

Access == INSTANCE ExclusiveAccess WITH
    reservation <- [p \in Processor |-> Reservation(p)]

\* The monitor and the code that uses it implement exclusive access: with and
\* without a resolver, and when fast path and callbacks take turns on lists that
\* no longer match the array.
ImplementsExclusiveAccess == Access!Spec

\* Each store-exclusive, by either path, is the abstract store of the same
\* processor to the same location: it succeeds if that processor still holds its
\* reservation and memory its loaded value, never on another's reservation, and
\* never fails without cause.
StoresAreJustified ==
    [][status' # "none" =>
        \A p \in Running, a \in VAddr, v \in Value :
            ExclusiveWrite(p, a, v) \/ InlineWrite(p, a, v) =>
                LET k == ResolveAddress(p, a)
                IN  Access!Store(p, k, v) \/ Access!StoreWithoutReservation(p, k)]_vars
=============================================================================
