-------------------------- MODULE MCNativeCodeSlab --------------------------
(* Instances of NativeCodeSlab for TLC.                                    *)
EXTENDS NativeCodeSlab, TLC

CONSTANTS l1, l2

\* l1 links to every location, l2 to l1; l2's code overlaps l1's.
MCTargets == [l \in Location |-> IF l = l1 THEN Location ELSE {l1}]
MCCovers == [l \in Location |-> IF l = l1 THEN {{0}} ELSE {{0, 1}}]

Symmetry == Permutations(Executor)
=============================================================================
