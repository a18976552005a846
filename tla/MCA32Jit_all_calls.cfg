SPECIFICATION Spec
CONSTANTS
    l1 = l1
    l2 = l2
    Targets <- MCTargets
    Covers <- MCCovers
    CodeSegmentsBegin = 3
    ReturnStackBuffer = FALSE
    MaxGeneration = 9
    Location = {l1}
    MaxAddress = 0
    BlockSize = {1}
    UsableBytes = 4
    MinimumSegmentBytes = 2
    TargetSegmentBytes = 2
    MaximumSegmentCount = 4
    SegmentAlignment = 1
    Executor = {j1, j2}
    Resident = {j1, j2}
    SharedMode = TRUE
    Fastmem = FALSE
    EmitMayThrow = TRUE
    UserHaltReason = {"CacheInvalidation", "UserDefined1"}
    Operation = {"Run", "Step", "Precompile", "PrecompileWithResult", "GeneratePortableIR", "ClearCache", "InvalidateCacheRange", "Reset", "HaltExecution", "ClearHalt"}
    Provided = {"nothing", "matching", "mismatched"}
    Margin = 2
    MaxCalls = 3
INVARIANTS
    ArtifactsAreCompletedOnce
PROPERTIES
    ImplementsSlab
