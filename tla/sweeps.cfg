SPECIFICATION Spec
CONSTANTS
    s1 = s1
    s2 = s2
    named = named
    MonthOf <- MCMonthOf
    Envelopes <- SameMonth
    MaxTime = 5
    Window = 2
    EventIDs = {1, 2, 3, 4}
    Subjects = {s1, s2}
    ValidRefs = {s1, s2}
    AttrKeys = {"reason", "note"}
    ForbiddenKeys = {"note"}
    VerifyRetentionDays = 0
    MaxEvidence = 0
    Instances = {i1, i2}
    Faults = {"fail", "lost"}
    Crashes = TRUE
    MaxPosts = 1
    LateDelivery = TRUE
    PurgeReqs = {}
    VerifyReqs = {}
SYMMETRY InstanceSymmetry
INVARIANTS
    LocalsStale
    CheckpointOnlyClosed
    CheckpointEventMatches
    NeverOverReported
PROPERTIES
    SweepPurgesSealed
