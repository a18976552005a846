SPECIFICATION Spec
CONSTANTS
    l1 = l1
    l2 = l2
    Targets <- MCTargets
    Covers <- MCCovers
    CodeSegmentsBegin = 3
    ReturnStackBuffer = FALSE
    MaxGeneration = 9
    Location = {l1, l2}
    MaxAddress = 1
    BlockSize = {1}
    UsableBytes = 4
    MinimumSegmentBytes = 2
    TargetSegmentBytes = 2
    MaximumSegmentCount = 4
    SegmentAlignment = 1
    Executor = {j1}
    Resident = {j1}
    SharedMode = TRUE
    Fastmem = FALSE
    EmitMayThrow = FALSE
    UserHaltReason = {"CacheInvalidation"}
    Operation = {"Run", "InvalidateCacheRange"}
    Provided = {"nothing"}
    Margin = 2
    MaxCalls = 3
SYMMETRY Symmetry
INVARIANTS
    RequestsAreKept
