---------------------- MODULE MCBlockRangeInformation -----------------------
(* An instance of BlockRangeInformation for TLC.                           *)
EXTENDS BlockRangeInformation, TLC

Symmetry == Permutations(Location)
=============================================================================
