SPECIFICATION Spec
CONSTANTS
    l1 = l1
    l2 = l2
    Location = {l1}
    Targets <- MCTargets
    Covers <- MCCovers
    MaxAddress = 0
    BlockSize = {1}
    CodeSegmentsBegin = 3
    UsableBytes = 2
    MinimumSegmentBytes = 1
    TargetSegmentBytes = 1
    MaximumSegmentCount = 4
    SegmentAlignment = 1
    Executor = {e1, e2}
    Resident = {}
    SharedMode = TRUE
    Fastmem = FALSE
    EmitMayThrow = TRUE
    ReturnStackBuffer = TRUE
    UserHaltReason = {"CacheInvalidation"}
    MaxGeneration = 2
SYMMETRY Symmetry
INVARIANTS
    AccountingIsExact
    LeaveNeverThrows
    PendingIsSignalled
    ExecutedCodeIsCurrent
    CodeMemoryIsSound
