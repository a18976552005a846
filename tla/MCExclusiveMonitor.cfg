SPECIFICATION Spec
CONSTANTS
    p1 = p1
    p2 = p2
    p3 = p3
    a1 = a1
    a2 = a2
    Processor = {p1, p2, p3}
    Unresolved = {p1, p2}
    VAddr = {a1, a2}
    Key = {a1, a2}
    Value = {v1, v2}
    Invalid = Invalid
    NoProcessor = NoProcessor
    Resolve <- MCResolve
SYMMETRY Interchangeable
INVARIANTS
    TypeOK
    IndexIsComplete
PROPERTIES
    ImplementsExclusiveAccess
    StoresAreJustified
