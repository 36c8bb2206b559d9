SPECIFICATION Spec
CONSTANTS
    s1 = s1
    s2 = s2
    Stars = {s1, s2}
    MemberLists <- MCMemberLists
    Deltas = {1, 3}
    Caps = {0}
    Given <- MCGiven
    Full = 3
    Spike = 1
    MaxGrowth = 2
    Tolerance = 1
    SignalTolerance = 2
    Warning = 2
    CascadeThreshold = 36
    EpochSize = 2
    MaxCalls = 4
    MaxBoots = 2
    MaxFailures = 1
    None = None
SYMMETRY StarSymmetry
INVARIANTS CollapseHonest PatchesAreTold AnchorsCoverAll GuardedPatchesPass HealthCatchesUp PropagationReached
PROPERTIES AnchorsStay
CHECK_DEADLOCK FALSE
