SPECIFICATION MemorySpec
CONSTANTS
    s1 = s1
    s2 = s2
    MaxTime = 3
    MonthOf <- MCMonthOf
    Window = 1
    EventIDs = {1, 2, 3, 4}
    Subjects = {s1, s2}
    ValidRefs = {s1, s2}
    AttrKeys = {"reason"}
    ForbiddenKeys = {}
    Envelopes <- MCEnvelopes
    DefaultLimit = 2
    MaxAppends = 4
INVARIANTS
    IndexAgrees
    SealsReproducible
    BySubjectAnswers
    PendingOldestFirst
PROPERTY
    ImplementsStore
