SPECIFICATION FairSpec
CONSTANTS
    s1 = s1
    s2 = s2
    named = named
    MonthOf <- MCMonthOf
    Envelopes <- TwoMonths
    MaxTime = 5
    Window = 2
    EventIDs = {1, 2, 3, 4}
    Subjects = {s1}
    ValidRefs = {s1}
    AttrKeys = {"reason", "note"}
    ForbiddenKeys = {"note"}
    VerifyRetentionDays = 1
    MaxEvidence = 1
    Instances = {i1}
    Faults = {"fail", "lost"}
    Crashes = FALSE
    MaxPosts = 1
    LateDelivery = TRUE
    PurgeReqs = {}
    VerifyReqs = {}
PROPERTIES
    ExpiredEventuallyPurged
    ClosedEventuallySealed
    EvidenceEventuallySwept
