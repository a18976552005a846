SPECIFICATION Spec
CONSTANTS
    l1 = l1
    l2 = l2
    Targets <- MCTargets
    Covers <- MCCovers
    CodeSegmentsBegin = 3
    ReturnStackBuffer = FALSE
    MaxGeneration = 9
    Location = {l1}
    MaxAddress = 0
    BlockSize = {1}
    UsableBytes = 8
    MinimumSegmentBytes = 8
    TargetSegmentBytes = 8
    MaximumSegmentCount = 4
    SegmentAlignment = 1
    Executor = {j1}
    Resident = {j1}
    SharedMode = TRUE
    Fastmem = FALSE
    EmitMayThrow = FALSE
    UserHaltReason = {"CacheInvalidation"}
    Operation = {"Run", "ClearCache", "Reset"}
    Provided = {"nothing"}
    Margin = 2
    MaxCalls = 4
SYMMETRY Symmetry
INVARIANTS
    RunsNoOutdatedCode
