SPECIFICATION Spec
CONSTANTS
    l1 = l1
    l2 = l2
    Location = {l1}
    Targets <- MCTargets
    Covers <- MCCovers
    MaxAddress = 0
    BlockSize = {1, 2}
    CodeSegmentsBegin = 3
    UsableBytes = 6
    MinimumSegmentBytes = 2
    TargetSegmentBytes = 2
    MaximumSegmentCount = 4
    SegmentAlignment = 2
    Executor = {e1}
    Resident = {e1}
    SharedMode = FALSE
    Fastmem = TRUE
    EmitMayThrow = FALSE
    ReturnStackBuffer = FALSE
    UserHaltReason = {}
    MaxGeneration = 3
INVARIANTS
    CodeMemoryIsSound
    SegmentAccountingIsExact
    FaultsAreFound
    DirectLinksAreCurrent
    FaultingCodeIsReplaced
