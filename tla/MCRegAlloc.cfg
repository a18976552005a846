SPECIFICATION Spec
CONSTANTS
    Inst = {i1, i2, i3}
    GprOrder <- MCGprOrder
    FprOrder <- MCFprOrder
    CallerSave <- MCCallerSave
    ArgumentRegister <- MCArgumentRegister
    ResultRegister <- MCResultRegister
    SpillCount = 3
    MaxUses = 2
SYMMETRY Symmetry
INVARIANTS
    OperandsAreInPlace
    ValuesHaveOneHome
    AssertsHold
    UsesAreCounted
