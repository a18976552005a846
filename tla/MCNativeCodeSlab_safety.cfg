SPECIFICATION Spec
CONSTANTS
    l1 = l1
    l2 = l2
    Location = {l1, l2}
    Targets <- MCTargets
    Covers <- MCCovers
    MaxAddress = 1
    BlockSize = {1}
    CodeSegmentsBegin = 3
    UsableBytes = 3
    MinimumSegmentBytes = 1
    TargetSegmentBytes = 2
    MaximumSegmentCount = 4
    SegmentAlignment = 1
    Executor = {e1, e2}
    Resident = {e1, e2}
    SharedMode = TRUE
    Fastmem = FALSE
    EmitMayThrow = FALSE
    ReturnStackBuffer = FALSE
    UserHaltReason = {}
    MaxGeneration = 2
SYMMETRY Symmetry
INVARIANTS
    TypeOK
    ExecutedCodeIsCurrent
    DirectLinksAreCurrent
    DirectLinksAreEventuallyPublishable
    IndexesAgree
PROPERTIES
    CodePatchedOnlyWhenQuiescent
    RetirementOnlyAtBoundary
    PendingRemovalsAreKept
    RecyclingSparesNewCode
