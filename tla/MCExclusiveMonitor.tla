------------------------- MODULE MCExclusiveMonitor -------------------------
(* An instance of ExclusiveMonitor for TLC.                                *)
EXTENDS ExclusiveMonitor, TLC

CONSTANTS p1, p2, p3, a1, a2

\* p3 has the two locations mapped the other way round.
MCResolve ==
    [p \in Processor |-> [a \in VAddr |->
        IF p # p3 THEN a ELSE IF a = a1 THEN a2 ELSE a1]]

\* Exchanging a1 and a2 leaves MCResolve as it is.
Interchangeable ==
    Permutations({p1, p2}) \cup Permutations({a1, a2}) \cup Permutations(Value)
=============================================================================
