SPECIFICATION Spec
CONSTANTS
    s1 = s1
    s2 = s2
    MaxTime = 2
    MonthOf <- MCMonthOf
    Window = 1
    EventIDs = {1, 2, 3, 4, 5, 6}
    Subjects = {s1, s2}
    ValidRefs = {s1, s2}
    AttrKeys = {"reason"}
    ForbiddenKeys = {}
    Envelopes <- MCEnvelopes
    DefaultLimit = 3
    MaxAppends = 6
    c1 = c1
    c2 = c2
    Callers = {c1, c2}
    MaxCalls = 4
    MaxLate = 1
    Existing <- MCExisting
    VerifyLimit = 3
    Alterations <- MCAlterations
    MaxAlterations = 1
SYMMETRY CallerSymmetry
CHECK_DEADLOCK FALSE
INVARIANT
    EverySealVerified
