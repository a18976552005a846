----------------------------- MODULE MCRegAlloc -----------------------------
(* Instances of RegAlloc for TLC.  Callee-saved registers come first, and  *)
(* every vector register is caller-saved.                                  *)
EXTENDS RegAlloc, TLC

MCGprOrder == <<19, 20, 21, 0>>
MCFprOrder == <<8, 9, 0>>
MCCallerSave == <<Gpr(0), <<"Fpr", 0>>, <<"Fpr", 8>>, <<"Fpr", 9>>>>
MCArgumentRegister == <<Gpr(0), <<"Fpr", 0>>>>
MCResultRegister == {Gpr(0), <<"Fpr", 8>>}

Symmetry == Permutations(Inst)
=============================================================================
