SPECIFICATION Spec
CONSTANTS
    l1 = l1
    l2 = l2
    Targets <- MCTargets
    Covers <- MCCovers
    CodeSegmentsBegin = 3
    ReturnStackBuffer = FALSE
    MaxGeneration = 9
    Location = {l1, l2}
    MaxAddress = 1
    BlockSize = {1}
    UsableBytes = 8
    MinimumSegmentBytes = 8
    TargetSegmentBytes = 8
    MaximumSegmentCount = 4
    SegmentAlignment = 1
    Executor = {j1, j2}
    Resident = {j1, j2}
    SharedMode = TRUE
    Fastmem = FALSE
    EmitMayThrow = TRUE
    UserHaltReason = {"CacheInvalidation"}
    Operation = {"Run", "ClearCache", "InvalidateCacheRange"}
    Provided = {"nothing", "matching"}
    Margin = 2
    MaxCalls = 4
SYMMETRY Symmetry
INVARIANTS
    TypeOK
    RequestsAreKept
    RunsNoOutdatedCode
    RequestsAreSignalled
    SomebodyFinishesPending
