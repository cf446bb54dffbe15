SPECIFICATION Spec
CONSTANTS
    s1 = s1
    s2 = s2
    named = named
    MonthOf <- MCMonthOf
    Envelopes <- OneRefused
    MaxTime = 5
    Window = 2
    EventIDs = {1, 2, 3, 4}
    Subjects = {s1, s2, named}
    ValidRefs = {s1, s2}
    AttrKeys = {"reason", "note"}
    ForbiddenKeys = {"note"}
    VerifyRetentionDays = 0
    MaxEvidence = 0
    Instances = {i1}
    Faults = {"fail", "lost"}
    Crashes = FALSE
    MaxPosts = 2
    LateDelivery = TRUE
    PurgeReqs = {q1}
    VerifyReqs = {}
INVARIANTS
    TypeOK
    OneRowPerEvent
    SealsVerify
    AckedQueryable
PROPERTIES
    ImplementsLedger
