-------------------------- MODULE ExclusiveAccess ---------------------------
(***************************************************************************)
(* What the exclusive monitor promises to guest code: load-exclusive and   *)
(* store-exclusive on a shared memory.  A store succeeds exactly if its    *)
(* processor still holds the reservation of its last load on that location *)
(* and the location still holds the value loaded; any store by a holder    *)
(* takes the reservation from every other holder.                          *)
(***************************************************************************)
EXTENDS Integers

CONSTANTS
    Processor,
    Key,            \* memory locations
    Value,          \* their contents
    Invalid         \* INVALID_EXCLUSIVE_ADDRESS, not a location

VARIABLES
    memory,
    reservation,    \* by processor: the location and the value loaded, or Nothing
    status          \* how the last step ended, if a store-exclusive

accessVars == <<memory, reservation, status>>

Nothing == [key |-> Invalid, value |-> Invalid]

Init ==
    /\ memory \in [Key -> Value]
    /\ reservation = [p \in Processor |-> Nothing]
    /\ status = "none"

Load(p, k) ==
    /\ reservation' = [reservation EXCEPT ![p] = [key |-> k, value |-> memory[k]]]
    /\ status' = "none"
    /\ UNCHANGED memory

Store(p, k, v) ==
    /\ reservation[p].key = k
    /\ reservation' = [q \in Processor |->
            IF reservation[q].key = k THEN Nothing ELSE reservation[q]]
    /\ IF memory[k] = reservation[p].value
       THEN /\ memory' = [memory EXCEPT ![k] = v]
            /\ status' = "success"
       ELSE /\ UNCHANGED memory
            /\ status' = "failure"

StoreWithoutReservation(p, k) ==
    /\ reservation[p].key # k
    /\ reservation' \in {reservation, [reservation EXCEPT ![p] = Nothing]}
    /\ status' = "failure"
    /\ UNCHANGED memory

OrdinaryStore(k, v) ==
    /\ memory' = [memory EXCEPT ![k] = v]
    /\ status' = "none"
    /\ UNCHANGED reservation

\* CLREX, or the host clears the monitor
Release(processors) ==
    /\ reservation' = [q \in Processor |->
            IF q \in processors THEN Nothing ELSE reservation[q]]
    /\ status' = "none"
    /\ UNCHANGED memory

Next ==
    \/ \E p \in Processor, k \in Key :
        \/ Load(p, k)
        \/ \E v \in Value : Store(p, k, v)
        \/ StoreWithoutReservation(p, k)
    \/ \E k \in Key, v \in Value : OrdinaryStore(k, v)
    \/ \E p \in Processor : Release({p})
    \/ Release(Processor)

Spec == Init /\ [][Next]_accessVars
=============================================================================
